---- MODULE Spec2Model ----
(***************************************************************************)
(* Work queue and result ledger of the Oliver uploader (the queue-based    *)
(* script, src/unnamed/part_001): the five durable files, initializeQueue, *)
(* recordResult, the batch loop of runOliverAutomation, and process kills  *)
(* between any two durable writes; processISBN and searchSmartCataloguing  *)
(* step by step; the exit paths of runOliverAutomation; loginThroughPopup. *)
(* Spec is the batch, SpecRun its exit paths, SpecItem one identifier at   *)
(* a time, SpecClassify the classification function, SpecLogin the login.  *)
(*                                                                         *)
(* A file is the sequence of its "\n"-terminated lines; a file that does   *)
(* not exist is the empty sequence (readLines and appendLine treat both    *)
(* alike).  Identifiers are the tokens the input parser yields: trimmed,   *)
(* non-empty, not starting with "#".                                       *)
(***************************************************************************)
EXTENDS Integers, Sequences, FiniteSets, TLC

\* ---------------------------------------------------------------- bounds
MaxRuns == 2
MaxInput == 2
MaxItems == 2
MaxWords == 3
MaxLogins == 3
MaxChars == 4
MaxNavCalls == 2
MaxSubmissions == 2
MaxMenuItems == 2

\* ------------------------------------------------------------- constants
Isbns == {"a", "b"}

QUEUE_FILE == "queue.txt"
ADDED_FILE == "added.txt"
ALREADY_EXISTS_FILE == "already-exists.txt"
NOT_FOUND_FILE == "not-found.txt"
ERRORS_FILE == "errors.txt"

Files == {QUEUE_FILE, ADDED_FILE, ALREADY_EXISTS_FILE, NOT_FOUND_FILE, ERRORS_FILE}
LedgerFiles == {ADDED_FILE, ALREADY_EXISTS_FILE, NOT_FOUND_FILE, ERRORS_FILE}

NoIsbn == ""
NoMessage == ""

VARIABLES
    disk,          \* file name -> sequence of lines (the durable state)
    catalogued,    \* remote state: identifiers whose record was saved
    pc,            \* position of the process in runOliverAutomation
    exit,          \* how the last finished run ended
    isbns,         \* argument of runOliverAutomation
    queue,         \* value returned by initializeQueue, until the loop starts
    isbn,          \* identifier in flight (currentQueue[0])
    status,        \* result.status of the identifier in flight
    errorMessage,  \* result.error / message handed to recordResult
    runs,          \* number of process starts so far
    items,         \* number of processISBN calls so far
    mode,          \* how the current run relates to the previous one
    supplied,      \* every identifier ever passed to initializeQueue
    dupSupplied,   \* identifiers passed more than once in one input list
    processedAtStart,  \* getProcessedIsbns() when the current run started
    recordedAtStart,   \* identifiers with any ledger record at that moment
    exitCode,      \* exit status of the process, "none" while it runs
    browser,       \* a launched browser that was not closed
    obs,           \* what processISBN reads from the page
    result,        \* the result object processISBN returns
    step,          \* position inside one processISBN call
    attempt,       \* the attempt parameter of searchSmartCataloguing
    searches,      \* clicks on the search button during this call
    navs,          \* navigateToSmartCataloguing calls during this call
    saveClicks,    \* clicks on the save control during this call
    signals,       \* loginVisible, stillOnSmartCataloguing, permissionDenied
    searchReady,   \* what searchSmartCataloguing returned
    loginStep,     \* position inside one loginThroughPopup call
    loginCalls,    \* loginThroughPopup calls so far
    dialogAttempt, \* the loop counter of the login dialog loop
    dialogOpens,   \* clicks on the login link that open the dialog, this call
    submittedCredentials,
    logoutVisible,
    sessionFile,   \* the call that wrote session.json, 0 when there is none
    snapshotWrites,    \* storageState writes during this call
    loginReturn,   \* what the call returned
    inputContent,  \* the characters of the input file
    parsed,        \* the identifier list read from it
    pageClosed,    \* the page the module variable refers to is closed
    staleAtStart,  \* it was closed when processISBN was called
    directEnabled, \* ensureSmartCataloguingPage tries the direct strategy first
    navStep,       \* the position inside navigateToSmartCataloguing
    navCalls,      \* navigateToSmartCataloguing calls so far
    navReturn,     \* what the last call returned
    menuAttempt,   \* the attempt parameter of attemptMenuSmartCatalog
    menuRuns,      \* menu attempts started in this call
    clickTries,    \* the loop counter of the menu header click
    listener,      \* the state of popupPromise
    popupOpened,   \* the submenu click of this attempt opened a new page
    adopted,       \* page was reassigned to the new page in this attempt
    landing,       \* the page observation a true return was based on
    directAttempt, \* the loop counter of attemptDirectSmartCatalog
    directMax,     \* its maxAttempts parameter
    attemptedLogin,
    directCaller,  \* who called attemptDirectSmartCatalog
    directNavs,    \* direct navigations in this call
    authenticated, \* the backend holds a valid session for the context
    submissions,   \* credential submissions so far
    confirmed,     \* a login was confirmed
    firstProbe,    \* what the first login probe of the run showed
    expiredAfterConfirm,   \* the session was invalidated after a confirmed login
    submenu,       \* what became of the submenu click of this attempt
    menuItems,     \* the visibility of the #menuItem_smartCataloguing elements
    clickedItem,   \* the position of the element that was clicked, 0 for none
    directSeen,    \* what the last direct navigation landed on
    page,          \* the module variable page: a page of the context, or none
    pagesWithHandlers,     \* the WeakSet of pages that have the handler
    contextPages,  \* the pages the browser context has created
    closedPages,   \* those of them that are closed
    pageEvents,    \* pages whose context "page" event is not yet delivered
    dialogHandlers,        \* page -> number of dialog handlers attached
    registerCalls, \* page -> calls of registerPageEventHandlers for it
    tabStep,       \* position of the program with respect to its pages
    tabOp,         \* the operation that is running
    afterRegister, \* where the program continues after a registration
    msgText,       \* the text of the status element #smartCatFoundMsg
    msgFor,        \* the number of the search that put it there, 0 for none
    saveControl,   \* the save button shown with it
    searchNo,      \* the number of the search submitted last
    backendStep,   \* how far the site is with that search
    waitStep,      \* position in searchSmartCataloguing and processISBN
    waitedOn,      \* the search whose message ended a wait, 0 for none
    outcome,       \* the result processISBN derived for the search
    outcomeFrom,   \* the search that produced the text it read
    outcomeText    \* the text it read

queueVars == <<disk, catalogued, pc, exit, isbns, queue, isbn, status,
               errorMessage, runs, items, mode, supplied, dupSupplied,
               processedAtStart, recordedAtStart>>

runVars == <<exitCode, browser>>

classifyVars == <<obs, result>>

itemVars == <<step, attempt, searches, navs, saveClicks, signals, searchReady>>

loginVars == <<loginStep, loginCalls, dialogAttempt, dialogOpens, submittedCredentials,
               logoutVisible, sessionFile, snapshotWrites, loginReturn>>

parseVars == <<inputContent, parsed>>

pageVars == <<pageClosed, staleAtStart>>

navVars == <<directEnabled, navStep, navCalls, navReturn, menuAttempt,
             menuRuns, clickTries, listener, popupOpened, adopted, landing,
             directAttempt, directMax, attemptedLogin, directCaller,
             directNavs, authenticated, submissions, confirmed, firstProbe,
             expiredAfterConfirm, submenu, menuItems, clickedItem,
             directSeen>>

menuVars == <<menuAttempt, menuRuns, clickTries, listener, popupOpened,
              adopted>>

submenuVars == <<submenu, menuItems, clickedItem>>

directVars == <<directAttempt, directMax, attemptedLogin, directCaller,
                directNavs>>

sessionVars == <<authenticated, submissions, confirmed, firstProbe,
                 expiredAfterConfirm>>

tabVars == <<page, pagesWithHandlers, contextPages, closedPages, pageEvents,
             dialogHandlers, registerCalls, tabStep, tabOp, afterRegister>>

waitVars == <<msgText, msgFor, saveControl, searchNo, backendStep, waitStep,
              waitedOn, outcome, outcomeFrom, outcomeText>>

extraVars == <<tabVars, waitVars>>

restVars == <<parseVars, pageVars, navVars, extraVars>>

vars == <<queueVars, runVars, classifyVars, itemVars, loginVars, restVars>>

\* ---------------------------------------------------------------- helpers
Range(s) == {s[i] : i \in 1..Len(s)}

Count(s, x) == Cardinality({i \in 1..Len(s) : s[i] = x})

IsPrefix(s, t) == Len(s) <= Len(t) /\ SubSeq(t, 1, Len(s)) = s

\* line.startsWith("#"): no identifier of Isbns is a comment line
startsWithHash(line) == line \in {"#"}

\* readLines: split on line ends, drop blank and comment lines
readLines(file) == SelectSeq(file, LAMBDA line : line # "" /\ ~startsWithHash(line))

\* writeLines: lines.join("\n") + "\n"; an empty list leaves one blank line
writeLines(lines) == IF lines = <<>> THEN <<"">> ELSE lines

\* a write that extends the file by the same line twice
appendLine_twice(file, line, message) ==
    LET content == IF message # NoMessage
                   THEN [isbn |-> line, msg |-> message]
                   ELSE line
    IN  file \o <<content, content>>

\* a write that replaces the file instead of extending it
appendLine_overwrites(file, line, message) ==
    LET content == IF message # NoMessage
                   THEN [isbn |-> line, msg |-> message]
                   ELSE line
    IN  <<content>>

\* appendLine: existing + content + "\n"
appendLine(file, line, message) ==
    LET content == IF message # NoMessage
                   THEN [isbn |-> line, msg |-> message]
                   ELSE line
    IN  file \o <<content>>

\* a dequeue that empties the queue
removeFirstLineFromQueue_all(file) ==
    LET q == readLines(file)
    IN  IF Len(q) > 0 THEN writeLines(<<>>) ELSE file

\* a dequeue that drops the last entry
removeFirstLineFromQueue_last(file) ==
    LET q == readLines(file)
    IN  IF Len(q) > 0 THEN writeLines(SubSeq(q, 1, Len(q) - 1)) ELSE file

\* a dequeue that leaves the queue file as it is
removeFirstLineFromQueue_none(file) == file

\* removeFirstLineFromQueue, as a function of the queue file
removeFirstLineFromQueue(file) ==
    LET q == readLines(file)
    IN  IF Len(q) > 0 THEN writeLines(Tail(q)) ELSE file

\* only added.txt counts as processed
getProcessedIsbns_addedOnly(d) == Range(readLines(d[ADDED_FILE]))

\* errors.txt counts as processed too
getProcessedIsbns_withErrors(d) ==
    Range(readLines(d[ADDED_FILE])) \cup Range(readLines(d[ALREADY_EXISTS_FILE]))
        \cup Range(readLines(d[NOT_FOUND_FILE]))
        \cup {d[ERRORS_FILE][i].isbn : i \in 1..Len(d[ERRORS_FILE])}

\* getProcessedIsbns: errors.txt is deliberately left out
getProcessedIsbns(d) ==
    Range(readLines(d[ADDED_FILE])) \cup Range(readLines(d[ALREADY_EXISTS_FILE]))
        \cup Range(readLines(d[NOT_FOUND_FILE]))

\* the existing queue is taken over unfiltered
cleanedQueue_keepsProcessed(existingQueue, processedIsbns) == existingQueue

\* initializeQueue: the existing queue without the processed identifiers
cleanedQueue(existingQueue, processedIsbns) ==
    SelectSeq(existingQueue, LAMBDA i : i \notin processedIsbns)

\* the input is taken over without looking at the ledger
newIsbns_keepsProcessed(inputIsbns, processedIsbns, cleaned) ==
    SelectSeq(inputIsbns, LAMBDA i : i \notin Range(cleaned))

\* the input is ignored when a queue exists
newIsbns_none(inputIsbns, processedIsbns, cleaned) ==
    IF Len(cleaned) > 0 THEN <<>>
    ELSE SelectSeq(inputIsbns, LAMBDA i : i \notin processedIsbns)

\* initializeQueue: the input identifiers neither processed nor queued
\* (with an empty cleaned queue the second test is the vacuous one of
\* the else branch)
newIsbns(inputIsbns, processedIsbns, cleaned) ==
    SelectSeq(inputIsbns,
              LAMBDA i : i \notin processedIsbns /\ i \notin Range(cleaned))

\* initializeQueue: the returned queue and the queue file it leaves behind
initializeQueue(inputIsbns, d) ==
    LET processedIsbns == getProcessedIsbns(d)
        existingQueue == readLines(d[QUEUE_FILE])
        cleaned == cleanedQueue(existingQueue, processedIsbns)
        new == newIsbns(inputIsbns, processedIsbns, cleaned)
    IN  IF Len(cleaned) > 0
        THEN IF Len(new) > 0
             THEN [queue |-> cleaned \o new, file |-> writeLines(cleaned \o new)]
             ELSE [queue |-> cleaned,
                   file |-> IF Len(cleaned) # Len(existingQueue)
                            THEN writeLines(cleaned)
                            ELSE d[QUEUE_FILE]]
        ELSE IF Len(new) > 0
             THEN [queue |-> new, file |-> writeLines(new)]
             ELSE [queue |-> <<>>, file |-> d[QUEUE_FILE]]

\* the switch without its UNKNOWN case
recordLedger_unknownDropped(d, id, st, message) ==
    CASE st = "ADDED" -> [d EXCEPT ![ADDED_FILE] = appendLine(@, id, NoMessage)]
      [] st = "ALREADY_EXISTS" ->
             [d EXCEPT ![ALREADY_EXISTS_FILE] = appendLine(@, id, NoMessage)]
      [] st = "NOT_FOUND" -> [d EXCEPT ![NOT_FOUND_FILE] = appendLine(@, id, NoMessage)]
      [] st = "ERROR" ->
             [d EXCEPT ![ERRORS_FILE] =
                 appendLine(@, id, IF message # NoMessage THEN message
                                   ELSE "Unknown error")]
      [] OTHER -> d

\* recordResult: the ledger write (the switch on status)
recordLedger(d, id, st, message) ==
    CASE st = "ADDED" -> [d EXCEPT ![ADDED_FILE] = appendLine(@, id, NoMessage)]
      [] st = "ALREADY_EXISTS" ->
             [d EXCEPT ![ALREADY_EXISTS_FILE] = appendLine(@, id, NoMessage)]
      [] st = "NOT_FOUND" -> [d EXCEPT ![NOT_FOUND_FILE] = appendLine(@, id, NoMessage)]
      [] st \in {"ERROR", "UNKNOWN"} ->
             [d EXCEPT ![ERRORS_FILE] =
                 appendLine(@, id, IF message # NoMessage THEN message
                                   ELSE "Unknown error")]
      [] OTHER -> d

\* the two durable writes in the opposite order
recordResult_dequeueFirst(d, id, st, message, write) ==
    IF write = 1
    THEN [d EXCEPT ![QUEUE_FILE] = removeFirstLineFromQueue(@)]
    ELSE recordLedger(d, id, st, message)

\* recordResult: the disk after its first or its second durable write
recordResult(d, id, st, message, write) ==
    IF write = 1
    THEN recordLedger(d, id, st, message)
    ELSE [d EXCEPT ![QUEUE_FILE] = removeFirstLineFromQueue(@)]

\* ------------------------------------------------------ page observations
\* A status text is the sequence of its words; a substring match is a match
\* of consecutive words.
NO_MATCHING == <<"no", "matching", "resource">>
FOUND_MATCHING == <<"found", "matching", "resource">>
SEARCHING == <<"Search,", "please", "wait...">>

Words == {"no", "No", "found", "Found", "matching", "resource"}

\* String.prototype.toLowerCase, word by word
toLowerCase(text) ==
    [k \in 1..Len(text) |->
        CASE text[k] = "No" -> "no"
          [] text[k] = "Found" -> "found"
          [] text[k] = "Search," -> "search,"
          [] OTHER -> text[k]]

\* String.prototype.includes
includes(text, pattern) ==
    \E k \in 0..(Len(text) - Len(pattern)) :
        SubSeq(text, k + 1, k + Len(pattern)) = pattern

\* the texts the status element shows in the batch model
StatusTexts == {<<>>, <<"No", "matching", "resource">>,
                <<"Found", "matching", "resource">>, SEARCHING}
SaveButtons == {"absent", "disabled", "enabled"}

includesNoMatching(text) == includes(toLowerCase(text), NO_MATCHING)

\* the test without toLowerCase
includesFoundMatching_caseSensitive(text) == includes(text, FOUND_MATCHING)

includesFoundMatching(text) == includes(toLowerCase(text), FOUND_MATCHING)

\* what the search page can show for identifier id
Observations(id) ==
    {o \in [thrown : BOOLEAN, searchReady : BOOLEAN,
            statusText : StatusTexts, saveButton : SaveButtons] :
        /\ (id \in catalogued => ~includesNoMatching(o.statusText))
        /\ (o.saveButton = "enabled" => id \notin catalogued)
        /\ (o.saveButton = "disabled" => id \in catalogued)
        /\ o.searchReady
        /\ (includesFoundMatching(o.statusText) => o.saveButton # "absent")
        /\ (o.thrown => o.searchReady /\ o.statusText = <<>> /\ o.saveButton = "absent")
        /\ (~o.searchReady => o.statusText = <<>> /\ o.saveButton = "absent")
        /\ (~includesFoundMatching(o.statusText) => o.saveButton = "absent")}

\* processISBN clicking the save control whenever it is present
processISBN_savesDisabled(o) ==
    IF o.thrown
    THEN [status |-> "ERROR", error |-> "Target page has been closed", saved |-> FALSE]
    ELSE IF ~o.searchReady
    THEN [status |-> "ERROR", error |-> "Search failed after re-login", saved |-> FALSE]
    ELSE IF includesNoMatching(o.statusText)
    THEN [status |-> "NOT_FOUND", error |-> NoMessage, saved |-> FALSE]
    ELSE IF includesFoundMatching(o.statusText) /\ o.saveButton # "absent"
    THEN [status |-> "ADDED", error |-> NoMessage, saved |-> TRUE]
    ELSE [status |-> "UNKNOWN", error |-> "No status message", saved |-> FALSE]

\* processISBN taking every text without "found matching resource" as a miss
processISBN_unknownAsNotFound(o) ==
    IF o.thrown
    THEN [status |-> "ERROR", error |-> "Target page has been closed", saved |-> FALSE]
    ELSE IF ~o.searchReady
    THEN [status |-> "ERROR", error |-> "Search failed after re-login", saved |-> FALSE]
    ELSE IF includesFoundMatching(o.statusText) /\ ~includesNoMatching(o.statusText)
    THEN IF o.saveButton # "absent"
         THEN IF o.saveButton = "disabled"
              THEN [status |-> "ALREADY_EXISTS", error |-> NoMessage, saved |-> FALSE]
              ELSE [status |-> "ADDED", error |-> NoMessage, saved |-> TRUE]
         ELSE [status |-> "NOT_FOUND", error |-> NoMessage, saved |-> FALSE]
    ELSE [status |-> "NOT_FOUND", error |-> NoMessage, saved |-> FALSE]

\* processISBN with skipNavigation = true: the result it hands to recordResult
processISBN(o) ==
    IF o.thrown
    THEN [status |-> "ERROR", error |-> "Target page has been closed", saved |-> FALSE]
    ELSE IF ~o.searchReady
    THEN [status |-> "ERROR", error |-> "Search failed after re-login", saved |-> FALSE]
    ELSE IF includesNoMatching(o.statusText)
    THEN [status |-> "NOT_FOUND", error |-> NoMessage, saved |-> FALSE]
    ELSE IF includesFoundMatching(o.statusText)
    THEN IF o.saveButton # "absent"
         THEN IF o.saveButton = "disabled"
              THEN [status |-> "ALREADY_EXISTS", error |-> NoMessage, saved |-> FALSE]
              ELSE [status |-> "ADDED", error |-> NoMessage, saved |-> TRUE]
         ELSE [status |-> "UNKNOWN", error |-> "Save button not found", saved |-> FALSE]
    ELSE [status |-> "UNKNOWN", error |-> "No status message", saved |-> FALSE]

\* ------------------------------------------------------------ observables
ErrorIds(file) == {file[i].isbn : i \in 1..Len(file)}

LedgerIds(d, f) == IF f = ERRORS_FILE THEN ErrorIds(d[f]) ELSE Range(readLines(d[f]))

AllLedgerIds(d) == UNION {LedgerIds(d, f) : f \in LedgerFiles}

QueueIds(d) == Range(readLines(d[QUEUE_FILE]))

\* ------------------------------------------------------------------ state
NoObservation == [thrown |-> FALSE, searchReady |-> FALSE, statusText |-> <<>>,
                  saveButton |-> "absent"]

NoResult == [status |-> "", error |-> NoMessage, saved |-> FALSE]

NoSignals == [loginVisible |-> FALSE, stillOnSmartCataloguing |-> TRUE,
              permissionDenied |-> FALSE]

QueueInit ==
    /\ disk = [f \in Files |-> <<>>]
    /\ pc = "idle"
    /\ exit = "none"
    /\ isbns = <<>>
    /\ queue = <<>>
    /\ isbn = NoIsbn
    /\ status = ""
    /\ errorMessage = NoMessage
    /\ runs = 0
    /\ items = 0
    /\ mode = "fresh"
    /\ supplied = {}
    /\ dupSupplied = {}
    /\ processedAtStart = {}
    /\ recordedAtStart = {}

RunInit ==
    /\ exitCode = "none"
    /\ browser = FALSE

ClassifyInit ==
    /\ obs = NoObservation
    /\ result = NoResult

\* a processISBN call that has not made a browser call yet
ItemInit ==
    /\ step = "search"
    /\ attempt = 1
    /\ searches = 0
    /\ navs = 0
    /\ saveClicks = 0
    /\ signals = NoSignals
    /\ searchReady = FALSE

LoginInit ==
    /\ loginStep = "idle"
    /\ loginCalls = 0
    /\ dialogAttempt = 0
    /\ dialogOpens = 0
    /\ submittedCredentials = FALSE
    /\ logoutVisible = FALSE
    /\ sessionFile = 0
    /\ snapshotWrites = 0
    /\ loginReturn = "none"

NotParsed == [done |-> FALSE, isbns |-> <<>>]

ParseInit ==
    /\ inputContent = <<>>
    /\ parsed = NotParsed

PageInit ==
    /\ pageClosed = FALSE
    /\ staleAtStart = FALSE

NoLanding == [loginVisible |-> FALSE, permissionDenied |-> FALSE,
           onSurface |-> FALSE, searchInput |-> FALSE]

\* the navigation state before the first call, session aside
NavIdle ==
    /\ navStep = "idle"
    /\ navCalls = 0
    /\ navReturn = "none"
    /\ menuAttempt = 1
    /\ menuRuns = 0
    /\ clickTries = 1
    /\ listener = "none"
    /\ popupOpened = FALSE
    /\ adopted = FALSE
    /\ landing = NoLanding
    /\ directAttempt = 1
    /\ directMax = 0
    /\ attemptedLogin = FALSE
    /\ directCaller = "none"
    /\ directNavs = 0
    /\ submissions = 0
    /\ confirmed = FALSE
    /\ firstProbe = "none"
    /\ expiredAfterConfirm = FALSE
    /\ submenu = "none"
    /\ menuItems = <<>>
    /\ clickedItem = 0
    /\ directSeen = "none"

NavInit ==
    /\ directEnabled = FALSE
    /\ authenticated = FALSE
    /\ NavIdle

\* how many pages the browser context creates
MaxPages == 3

NoPage == 0

PageIds == 1..MaxPages

\* module state of part_001:23-28 before the browser is launched
TabInit ==
    /\ page = NoPage
    /\ pagesWithHandlers = {}
    /\ contextPages = {}
    /\ closedPages = {}
    /\ pageEvents = {}
    /\ dialogHandlers = [p \in PageIds |-> 0]
    /\ registerCalls = [p \in PageIds |-> 0]
    /\ tabStep = "launch"
    /\ tabOp = "none"
    /\ afterRegister = "none"

\* the search page right after the navigation, nothing searched yet
WaitInit ==
    /\ msgText = <<>>
    /\ msgFor = 0
    /\ saveControl = "absent"
    /\ searchNo = 0
    /\ backendStep = "idle"
    /\ waitStep = "idle"
    /\ waitedOn = 0
    /\ outcome = NoResult
    /\ outcomeFrom = 0
    /\ outcomeText = <<>>

ExtraInit == TabInit /\ WaitInit

RestInit == ParseInit /\ PageInit /\ NavInit /\ ExtraInit

Init ==
    /\ catalogued = {}
    /\ QueueInit /\ RunInit /\ ClassifyInit /\ ItemInit /\ LoginInit
    /\ RestInit

InputLists == UNION {[1..n -> Isbns] : n \in 1..MaxInput}

\* runOliverAutomation up to the empty-queue check, initializeQueue included
Start(inputIsbns) ==
    /\ pc \in {"idle", "done"}
    /\ runs < MaxRuns
    /\ LET r == initializeQueue(inputIsbns, disk)
       IN  /\ disk' = [disk EXCEPT ![QUEUE_FILE] = r.file]
           /\ queue' = r.queue
           /\ pc' = IF Len(r.queue) = 0 THEN "done" ELSE "nav"
           /\ exit' = IF Len(r.queue) = 0 THEN "noWork" ELSE "none"
           /\ exitCode' = IF Len(r.queue) = 0 THEN "0" ELSE "none"
           /\ browser' = (Len(r.queue) # 0)
    /\ isbns' = inputIsbns
    /\ runs' = runs + 1
    /\ mode' = IF runs > 0 /\ inputIsbns = isbns
               THEN (IF pc = "idle" THEN "resume"
                     ELSE IF exit \in {"complete", "noWork"} THEN "rerun"
                     ELSE "fresh")
               ELSE "fresh"
    /\ supplied' = supplied \cup Range(inputIsbns)
    /\ dupSupplied' = dupSupplied \cup {i \in Isbns : Count(inputIsbns, i) > 1}
    /\ processedAtStart' = getProcessedIsbns(disk)
    /\ recordedAtStart' = AllLedgerIds(disk)
    /\ isbn' = NoIsbn
    /\ status' = ""
    /\ errorMessage' = NoMessage
    /\ UNCHANGED <<catalogued, items, classifyVars,
                   itemVars, loginVars, parseVars, navVars, extraVars>>
    /\ pageClosed' = FALSE
    /\ staleAtStart' = FALSE

\* the checks placed after initializeQueue
setupErrorExit_afterInitializeQueue(d) ==
    [d EXCEPT ![QUEUE_FILE] = initializeQueue(<<>>, d).file]

\* runOliverAutomation, failed credential or isbns check: the disk it leaves
setupErrorExit(d) == d

\* runOliverAutomation with a credential missing or an empty identifier
\* list: process.exit(1) before initializeQueue and before the launch
SetupError(credentials, noIsbns) ==
    /\ pc \in {"idle", "done"}
    /\ runs < MaxRuns
    /\ ~credentials \/ noIsbns
    /\ pc' = "done"
    /\ exit' = "setupError"
    /\ exitCode' = "1"
    /\ browser' = FALSE
    /\ runs' = runs + 1
    /\ queue' = <<>>
    /\ isbn' = NoIsbn
    /\ status' = ""
    /\ errorMessage' = NoMessage
    /\ disk' = setupErrorExit(disk)
    /\ UNCHANGED <<catalogued, isbns, items, mode, supplied, dupSupplied,
                   processedAtStart, recordedAtStart, classifyVars,
                   itemVars, loginVars, restVars>>

\* the initial navigateToSmartCataloguing reaches the search surface
NavigateOk ==
    /\ pc = "nav"
    /\ pc' = "loop"
    /\ queue' = <<>>
    /\ UNCHANGED <<disk, catalogued, exit, isbns, isbn, status,
                   errorMessage, runs, items, mode, supplied, dupSupplied,
                   processedAtStart, recordedAtStart, runVars, classifyVars,
                   itemVars, loginVars, restVars>>

\* the run records the queue head as an Error when the navigation fails
initialNavigationFailed_recordsError(d) ==
    LET q == readLines(d[QUEUE_FILE])
    IN  IF Len(q) = 0 THEN d
        ELSE recordResult(recordResult(d, Head(q), "ERROR", "Navigation failed", 1),
                          Head(q), "ERROR", "Navigation failed", 2)

\* runOliverAutomation, initialReady false: the disk it leaves (it returns)
initialNavigationFailed(d) == d

\* the initial navigation returns false: the run returns before the loop,
\* without closing the browser and without process.exit
NavigateFail ==
    /\ pc = "nav"
    /\ pc' = "done"
    /\ exit' = "navFailed"
    /\ exitCode' = "0"
    /\ disk' = initialNavigationFailed(disk)
    /\ UNCHANGED <<catalogued, isbns, queue, isbn, status,
                   errorMessage, runs, items, mode, supplied, dupSupplied,
                   processedAtStart, recordedAtStart, browser, classifyVars,
                   itemVars, loginVars, restVars>>

\* the initial navigation throws: the catch block closes the browser and
\* calls process.exit(1)
NavigateThrows ==
    /\ pc = "nav"
    /\ pc' = "done"
    /\ exit' = "navThrew"
    /\ exitCode' = "1"
    /\ browser' = FALSE
    /\ UNCHANGED <<disk, catalogued, isbns, queue, isbn, status,
                   errorMessage, runs, items, mode, supplied, dupSupplied,
                   processedAtStart, recordedAtStart, classifyVars,
                   itemVars, loginVars, restVars>>

\* head of the batch loop: take currentQueue[0]
LoopNext ==
    /\ pc = "loop"
    /\ items < MaxItems
    /\ Len(readLines(disk[QUEUE_FILE])) > 0
    /\ isbn' = Head(readLines(disk[QUEUE_FILE]))
    /\ items' = items + 1
    /\ pc' = "process"
    /\ staleAtStart' = pageClosed
    /\ UNCHANGED <<disk, catalogued, exit, isbns, queue, status, errorMessage,
                   runs, mode, supplied, dupSupplied, processedAtStart,
                   recordedAtStart, runVars, classifyVars,
                   itemVars, loginVars, parseVars, pageClosed, navVars,
                   extraVars>>

\* head of the batch loop: the queue is empty, the report is written
LoopExit ==
    /\ pc = "loop"
    /\ Len(readLines(disk[QUEUE_FILE])) = 0
    /\ pc' = "done"
    /\ exit' = "complete"
    /\ exitCode' = "0"
    /\ browser' = FALSE
    /\ UNCHANGED <<disk, catalogued, isbns, queue, isbn, status, errorMessage,
                   runs, items, mode, supplied, dupSupplied, processedAtStart,
                   recordedAtStart, classifyVars,
                   itemVars, loginVars, restVars>>

\* processISBN up to its call of recordResult
Process ==
    /\ pc = "process"
    /\ \E o \in Observations(isbn) :
         LET r == processISBN(o)
         IN  /\ status' = r.status
             /\ errorMessage' = r.error
             /\ catalogued' = IF r.saved THEN catalogued \cup {isbn} ELSE catalogued
    /\ pc' = "record"
    /\ UNCHANGED <<disk, exit, isbns, queue, isbn, runs, items, mode, supplied,
                   dupSupplied, processedAtStart, recordedAtStart, runVars,
                   classifyVars,
                   itemVars, loginVars, restVars>>

\* recordResult, first durable write
RecordAppend ==
    /\ pc = "record"
    /\ disk' = recordResult(disk, isbn, status, errorMessage, 1)
    /\ pc' = "dequeue"
    /\ UNCHANGED <<catalogued, exit, isbns, queue, isbn, status, errorMessage,
                   runs, items, mode, supplied, dupSupplied, processedAtStart,
                   recordedAtStart, runVars, classifyVars,
                   itemVars, loginVars, restVars>>

\* recordResult, second durable write; processISBN returns to the loop
RecordDequeue ==
    /\ pc = "dequeue"
    /\ disk' = recordResult(disk, isbn, status, errorMessage, 2)
    /\ pc' = "loop"
    /\ isbn' = NoIsbn
    /\ status' = ""
    /\ errorMessage' = NoMessage
    /\ obs' = NoObservation
    /\ step' = "search"
    /\ attempt' = 1
    /\ searches' = 0
    /\ navs' = 0
    /\ saveClicks' = 0
    /\ signals' = NoSignals
    /\ searchReady' = FALSE
    /\ UNCHANGED <<catalogued, exit, isbns, queue, runs, items, mode, supplied,
                   dupSupplied, processedAtStart, recordedAtStart, runVars,
                   result, loginVars, restVars>>

\* the process is killed; only the files and the remote state survive
Kill ==
    /\ pc \in {"nav", "loop", "process", "record", "dequeue"}
    /\ pc' = "idle"
    /\ exit' = "killed"
    /\ exitCode' = "killed"
    /\ browser' = FALSE
    /\ queue' = <<>>
    /\ isbn' = NoIsbn
    /\ status' = ""
    /\ errorMessage' = NoMessage
    /\ UNCHANGED <<disk, catalogued, isbns, runs, items, mode, supplied,
                   dupSupplied, processedAtStart, recordedAtStart, classifyVars,
                   itemVars, loginVars, restVars>>

\* ------------------------------------- one processISBN call, step by step
MaxSearchAttempts == 3

SignalSets == [loginVisible : BOOLEAN, stillOnSmartCataloguing : BOOLEAN,
               permissionDenied : BOOLEAN]

\* the three session-loss signals searchSmartCataloguing reads after a search
sessionLost(sig) ==
    sig.loginVisible \/ ~sig.stillOnSmartCataloguing \/ sig.permissionDenied

\* the retry test without its attempt bound
retryAfterSearch_unbounded(sig, att) == sessionLost(sig)

\* searchSmartCataloguing: the test that sends it back through navigation
retryAfterSearch(sig, att) == sessionLost(sig) /\ att < MaxSearchAttempts

\* searchSmartCataloguing: its return value when it does not retry
searchReturn(sig) == sig.stillOnSmartCataloguing

\* where control goes when a browser call throws inside processISBN, with
\* the exception left to the caller
afterThrow_propagates == "done"

\* where control goes when a browser call throws inside processISBN: the
\* catch block records the result
afterThrow == "record"

\* what processISBN reads once searchSmartCataloguing has returned
PageObservations(id, ready) ==
    IF ready
    THEN {o \in [thrown : {FALSE}, searchReady : {TRUE},
                 statusText : StatusTexts, saveButton : SaveButtons] :
             /\ (id \in catalogued => ~includesNoMatching(o.statusText))
             /\ (o.saveButton = "enabled" => id \notin catalogued)
             /\ (o.saveButton = "disabled" => id \in catalogued)
             /\ (~includesFoundMatching(o.statusText) => o.saveButton = "absent")}
    ELSE {NoObservation}

itemFrame == <<disk, exit, isbns, queue, isbn, runs, items, mode, supplied,
               dupSupplied, processedAtStart, recordedAtStart, runVars,
               result, loginVars, restVars>>

\* searchSmartCataloguing with attempt > 3
SearchExhausted ==
    /\ pc = "process" /\ step = "search"
    /\ attempt > MaxSearchAttempts
    /\ searchReady' = FALSE
    /\ step' = "read"
    /\ UNCHANGED <<itemFrame, catalogued, pc, status, errorMessage, obs,
                   attempt, searches, navs, saveClicks, signals>>

\* the search field does not appear within the timeout
SearchFieldUnavailable ==
    /\ pc = "process" /\ step = "search"
    /\ attempt <= MaxSearchAttempts
    /\ step' = "renav"
    /\ UNCHANGED <<itemFrame, catalogued, pc, status, errorMessage, obs,
                   attempt, searches, navs, saveClicks, signals, searchReady>>

\* fill the field, click search, wait, then read the three signals
SearchSubmit(sig) ==
    /\ pc = "process" /\ step = "search"
    /\ ~pageClosed
    /\ attempt <= MaxSearchAttempts
    /\ searches' = searches + 1
    /\ signals' = sig
    /\ IF retryAfterSearch(sig, attempt)
       THEN step' = "renav" /\ UNCHANGED searchReady
       ELSE step' = "read" /\ searchReady' = searchReturn(sig)
    /\ UNCHANGED <<itemFrame, catalogued, pc, status, errorMessage, obs,
                   attempt, navs, saveClicks>>

\* gotoAndWait: ensurePage is called only when page is null, so page.goto
\* on a closed page rejects and the error is thrown on
gotoAndWait(closed) == IF closed THEN "throws" ELSE "loaded"

\* a retry that starts over at attempt 1
nextAttempt_reset(att) == 1

\* searchSmartCataloguing(isbn, attempt + 1)
nextAttempt(att) == att + 1

\* navigateToSmartCataloguing called from searchSmartCataloguing
ReNavigate(reNav) ==
    /\ pc = "process" /\ step = "renav"
    /\ gotoAndWait(pageClosed) = "loaded"
    /\ navs' = navs + 1
    /\ IF reNav
       THEN attempt' = nextAttempt(attempt) /\ step' = "search"
            /\ UNCHANGED searchReady
       ELSE searchReady' = FALSE /\ step' = "read" /\ UNCHANGED attempt
    /\ UNCHANGED <<itemFrame, catalogued, pc, status, errorMessage, obs,
                   searches, saveClicks, signals>>

\* a browser call before the save click throws
BrowserThrows ==
    /\ pc = "process" /\ step \in {"search", "renav", "read"}
    /\ step = "read" => searchReady
    /\ status' = "ERROR"
    /\ errorMessage' = "Target page has been closed"
    /\ step' = "thrown"
    /\ pc' = afterThrow
    /\ UNCHANGED <<itemFrame, catalogued, obs, attempt, searches, navs,
                   saveClicks, signals, searchReady>>

\* after the save click processISBN searches again
afterSaveClick_searchesAgain == "search"

\* processISBN: where control goes after saveButton.click()
afterSaveClick == "saved"

\* processISBN after searchSmartCataloguing: read the status text and the
\* save control, classify, click save when the outcome is ADDED
ReadStatus(o) ==
    /\ pc = "process" /\ step = "read"
    /\ searchReady => ~pageClosed
    /\ o \in PageObservations(isbn, searchReady)
    /\ obs' = o
    /\ LET r == processISBN(o)
       IN  /\ status' = r.status
           /\ errorMessage' = r.error
           /\ IF r.saved
              THEN /\ saveClicks' = saveClicks + 1
                   /\ catalogued' = catalogued \cup {isbn}
                   /\ step' = afterSaveClick
                   /\ UNCHANGED pc
              ELSE /\ step' = "returned"
                   /\ pc' = "record"
                   /\ UNCHANGED <<saveClicks, catalogued>>
    /\ UNCHANGED <<itemFrame, attempt, searches, navs, signals, searchReady>>

\* saveButton.click() throws; the click may or may not have reached the page
SaveClickThrows(o, landed) ==
    /\ pc = "process" /\ step = "read"
    /\ ~pageClosed
    /\ o \in PageObservations(isbn, searchReady)
    /\ processISBN(o).saved
    /\ obs' = o
    /\ saveClicks' = saveClicks + 1
    /\ catalogued' = IF landed THEN catalogued \cup {isbn} ELSE catalogued
    /\ status' = "ERROR"
    /\ errorMessage' = "Target page has been closed"
    /\ step' = "thrown"
    /\ pc' = afterThrow
    /\ UNCHANGED <<itemFrame, attempt, searches, navs, signals, searchReady>>

\* the active page is closed while an identifier is processed
ClosePage ==
    /\ pc = "process" /\ step \in {"search", "renav", "read"}
    /\ ~pageClosed
    /\ pageClosed' = TRUE
    /\ UNCHANGED <<queueVars, runVars, classifyVars, itemVars, loginVars,
                   parseVars, staleAtStart, navVars, extraVars>>

\* after the save click: modal dismissal and load wait, failures swallowed
AfterSave ==
    /\ pc = "process" /\ step = "saved"
    /\ step' = "returned"
    /\ pc' = "record"
    /\ UNCHANGED <<itemFrame, catalogued, status, errorMessage, obs, attempt,
                   searches, navs, saveClicks, signals, searchReady>>

ItemInputs == {<<"a", "b">>, <<"a", "a">>}

NextItem ==
    \/ \E inputIsbns \in ItemInputs : Start(inputIsbns)
    \/ NavigateOk
    \/ LoopNext
    \/ SearchExhausted
    \/ SearchFieldUnavailable
    \/ \E sig \in SignalSets : SearchSubmit(sig)
    \/ \E reNav \in BOOLEAN : ReNavigate(reNav)
    \/ BrowserThrows
    \/ ClosePage
    \/ \E o \in [thrown : BOOLEAN, searchReady : BOOLEAN,
                  statusText : StatusTexts, saveButton : SaveButtons] :
           ReadStatus(o)
    \/ \E o \in [thrown : BOOLEAN, searchReady : BOOLEAN,
                  statusText : StatusTexts, saveButton : SaveButtons],
          landed \in BOOLEAN : SaveClickThrows(o, landed)
    \/ AfterSave
    \/ RecordAppend
    \/ RecordDequeue
    \/ LoopExit

\* the remote catalogue may hold any of the identifiers before the batch
InitItem ==
    /\ catalogued \in SUBSET Isbns
    /\ QueueInit /\ RunInit /\ ClassifyInit /\ ItemInit /\ LoginInit
    /\ RestInit

SpecItem == InitItem /\ [][NextItem]_vars

\* the remote catalogue is empty before the first batch; later batches find
\* what earlier ones saved
InitItemFair ==
    /\ catalogued = {}
    /\ QueueInit /\ RunInit /\ ClassifyInit /\ ItemInit /\ LoginInit
    /\ RestInit

\* every browser wait completes or times out: a step that can be taken is
\* taken in the end
FairSpecItem == InitItemFair /\ [][NextItem]_vars /\ WF_vars(NextItem)

\* ------------------------------------------------- loginThroughPopup
maxLoginDialogAttempts == 3

\* a dialog loop that runs one more time
dialogLoopContinues_oneMore(att) == att <= maxLoginDialogAttempts + 1

\* for (let attempt = 1; attempt <= maxLoginDialogAttempts; attempt++)
dialogLoopContinues(att) == att <= maxLoginDialogAttempts

\* success reported whenever the credentials were submitted without error
loginConfirmed_noError(seen) == TRUE

\* loginThroughPopup: the test on logoutVisible
loginConfirmed(seen) == seen

\* a snapshot that is written only when there is none yet
storageState_keepsExisting(file, call) == IF file = 0 THEN call ELSE file

\* context.storageState({ path: SESSION_FILE }): session.json afterwards
storageState(file, call) == call

loginFrame == <<queueVars, catalogued, runVars, classifyVars, itemVars,
               restVars>>

\* loginThroughPopup is called
LoginCall ==
    /\ loginStep \in {"idle", "returned"}
    /\ loginCalls < MaxLogins
    /\ loginCalls' = loginCalls + 1
    /\ loginStep' = "link"
    /\ dialogAttempt' = 0
    /\ dialogOpens' = 0
    /\ submittedCredentials' = FALSE
    /\ logoutVisible' = FALSE
    /\ snapshotWrites' = 0
    /\ loginReturn' = "none"
    /\ UNCHANGED <<loginFrame, sessionFile>>

\* the login link is looked for on the page and, if absent, on the home page
LoginLink(visibleHere, visibleHome) ==
    /\ loginStep = "link"
    /\ IF visibleHere \/ visibleHome
       THEN /\ loginStep' = "dialog"
            /\ dialogAttempt' = 1
            /\ UNCHANGED loginReturn
       ELSE /\ loginStep' = "returned"
            /\ loginReturn' = "false"
            /\ UNCHANGED dialogAttempt
    /\ UNCHANGED <<loginFrame, loginCalls, dialogOpens, submittedCredentials, logoutVisible,
                   sessionFile, snapshotWrites>>

\* one pass of the dialog loop: click the link, wait for the form, submit
LoginDialog(loginFormReady) ==
    /\ loginStep = "dialog"
    /\ dialogLoopContinues(dialogAttempt)
    /\ dialogOpens' = dialogOpens + 1
    /\ IF loginFormReady
       THEN /\ submittedCredentials' = TRUE
            /\ loginStep' = "afterLoop"
            /\ UNCHANGED dialogAttempt
       ELSE /\ dialogAttempt' = dialogAttempt + 1
            /\ UNCHANGED <<submittedCredentials, loginStep>>
    /\ UNCHANGED <<loginFrame, loginCalls, logoutVisible, sessionFile,
                   snapshotWrites, loginReturn>>

\* the loop counter passed maxLoginDialogAttempts
LoginDialogExhausted ==
    /\ loginStep = "dialog"
    /\ ~dialogLoopContinues(dialogAttempt)
    /\ loginStep' = "afterLoop"
    /\ UNCHANGED <<loginFrame, loginCalls, dialogOpens, dialogAttempt, submittedCredentials,
                   logoutVisible, sessionFile, snapshotWrites, loginReturn>>

\* if (!submittedCredentials) return false; else wait for the load state,
\* a timeout of which is caught
LoginAfterLoop(loadTimedOut) ==
    /\ loginStep = "afterLoop"
    /\ IF ~submittedCredentials
       THEN loginStep' = "returned" /\ loginReturn' = "false"
       ELSE loginStep' = "confirm" /\ UNCHANGED loginReturn
    /\ UNCHANGED <<loginFrame, loginCalls, dialogOpens, dialogAttempt, submittedCredentials,
                   logoutVisible, sessionFile, snapshotWrites>>

\* wait for #window_logout; without it return false
LoginConfirm(seen) ==
    /\ loginStep = "confirm"
    /\ logoutVisible' = seen
    /\ IF loginConfirmed(seen)
       THEN loginStep' = "save" /\ UNCHANGED loginReturn
       ELSE loginStep' = "returned" /\ loginReturn' = "false"
    /\ UNCHANGED <<loginFrame, loginCalls, dialogOpens, dialogAttempt, submittedCredentials,
                   sessionFile, snapshotWrites>>

\* write the session snapshot and return true
LoginSave ==
    /\ loginStep = "save"
    /\ sessionFile' = storageState(sessionFile, loginCalls)
    /\ snapshotWrites' = snapshotWrites + 1
    /\ loginStep' = "returned"
    /\ loginReturn' = "true"
    /\ UNCHANGED <<loginFrame, loginCalls, dialogOpens, dialogAttempt, submittedCredentials,
                   logoutVisible>>

\* a browser call that is not caught throws: the call neither returns true
\* nor false; a throwing storageState may have written the file
LoginThrows(written) ==
    /\ loginStep \in {"link", "dialog", "save"}
    /\ loginStep = "dialog" => dialogLoopContinues(dialogAttempt)
    /\ IF loginStep = "save" /\ written
       THEN /\ sessionFile' = storageState(sessionFile, loginCalls)
            /\ snapshotWrites' = snapshotWrites + 1
       ELSE UNCHANGED <<sessionFile, snapshotWrites>>
    /\ loginStep' = "returned"
    /\ loginReturn' = "threw"
    /\ UNCHANGED <<loginFrame, loginCalls, dialogOpens, dialogAttempt, submittedCredentials,
                   logoutVisible>>

InitLogin ==
    /\ catalogued = {}
    /\ QueueInit /\ RunInit /\ ClassifyInit /\ ItemInit /\ LoginInit
    /\ RestInit

NextLogin ==
    \/ LoginCall
    \/ \E visibleHere \in BOOLEAN, visibleHome \in BOOLEAN :
           LoginLink(visibleHere, visibleHome)
    \/ \E loginFormReady \in BOOLEAN : LoginDialog(loginFormReady)
    \/ LoginDialogExhausted
    \/ \E loadTimedOut \in BOOLEAN : LoginAfterLoop(loadTimedOut)
    \/ \E seen \in BOOLEAN : LoginConfirm(seen)
    \/ LoginSave
    \/ \E written \in BOOLEAN : LoginThrows(written)

SpecLogin == InitLogin /\ [][NextLogin]_vars

\* ------------------------------------------ navigateToSmartCataloguing
maxMenuAttempts == 3
maxMenuClicks == 3
maxAttempts == 5
postLoginDirectAttempts == 3

\* what a landing page can show: the login link, the permission-denied
\* indicator, a URL on the Smart Cataloguing surface, the search input
Landings == [loginVisible : BOOLEAN, permissionDenied : BOOLEAN,
             onSurface : BOOLEAN, searchInput : BOOLEAN]

\* what one loginThroughPopup call meets: the login link, the login form,
\* the backend's answer to the credentials, the logout control afterwards
LoginInputs == {i \in [linkVisible : BOOLEAN, formReady : BOOLEAN,
                       accepted : BOOLEAN, logoutSeen : BOOLEAN] :
                    /\ i.logoutSeen => i.accepted
                    /\ ~i.formReady => ~i.accepted}

\* a login that goes on to the dialog although the login link is not visible
loginOutcome_ignoresLink(i) ==
    IF ~i.formReady THEN "noForm"
    ELSE IF ~i.logoutSeen THEN "unconfirmed"
    ELSE "confirmed"

\* loginThroughPopup as seen by its caller
loginOutcome(i) ==
    IF ~i.linkVisible THEN "noLink"
    ELSE IF ~i.formReady THEN "noForm"
    ELSE IF ~i.logoutSeen THEN "unconfirmed"
    ELSE "confirmed"

Submitting == {"unconfirmed", "confirmed"}

\* an entry test that lets a fourth menu attempt run
menuExhausted_oneMore(att) == att > maxMenuAttempts + 1

\* attemptMenuSmartCatalog: if (attempt > 3) return false
menuExhausted(att) == att > maxMenuAttempts

\* attemptMenuSmartCatalog: if (!logoutVisible) login
needsLogin(visible) == ~visible

\* a landing check that takes the URL as evidence of a ready surface
checksOutcome_urlEvidence(o) ==
    IF o.onSurface THEN "ready" ELSE "incomplete"

\* attemptMenuSmartCatalog: the checks after the submenu click
checksOutcome(o) ==
    IF o.loginVisible THEN "login"
    ELSE IF o.permissionDenied THEN "denied"
    ELSE IF o.searchInput THEN "ready"
    ELSE "incomplete"

\* a loop body that navigates again after an unexpected redirect
directOutcome_retriesRedirect(o, attempted) ==
    IF o.loginVisible
    THEN IF attempted THEN "break" ELSE "login"
    ELSE IF ~o.permissionDenied
         THEN IF o.onSurface /\ o.searchInput THEN "ready" ELSE "retry"
         ELSE IF attempted THEN "break" ELSE "login"

\* attemptDirectSmartCatalog: the body of one loop iteration
directOutcome(o, attempted) ==
    IF o.loginVisible
    THEN IF attempted THEN "break" ELSE "login"
    ELSE IF ~o.permissionDenied
         THEN IF ~o.onSurface THEN "break"
              ELSE IF o.searchInput THEN "ready" ELSE "retry"
         ELSE IF attempted THEN "break" ELSE "login"

\* what a direct navigation landed on
landingKind(o) ==
    IF o.loginVisible THEN "login"
    ELSE IF o.permissionDenied THEN "denied"
    ELSE IF ~o.onSurface THEN "redirect"
    ELSE IF o.searchInput THEN "ready" ELSE "notReady"

\* what the first probe of the run showed
probed(loginShown) ==
    IF firstProbe # "none" THEN firstProbe
    ELSE IF loginShown THEN "login" ELSE "session"

navFrame == <<queueVars, catalogued, runVars, classifyVars, itemVars,
              loginVars, parseVars, pageVars, extraVars>>

\* the effect of one loginThroughPopup call on the session
LoginEffects(i, out) ==
    /\ i.linkVisible => ~authenticated
    /\ out \in Submitting => submissions < MaxSubmissions
    /\ submissions' = IF out \in Submitting THEN submissions + 1
                      ELSE submissions
    /\ authenticated' = IF out \in Submitting THEN i.accepted
                        ELSE authenticated
    /\ confirmed' = (confirmed \/ out = "confirmed")
    /\ UNCHANGED <<firstProbe, expiredAfterConfirm>>

\* navigateToSmartCataloguing is called
NavCall ==
    /\ navStep = "idle"
    /\ navCalls < MaxNavCalls
    /\ navCalls' = navCalls + 1
    /\ navReturn' = "none"
    /\ menuAttempt' = 1
    /\ menuRuns' = 0
    /\ clickTries' = 1
    /\ listener' = "none"
    /\ popupOpened' = FALSE
    /\ adopted' = FALSE
    /\ landing' = NoLanding
    /\ directAttempt' = 1
    /\ attemptedLogin' = FALSE
    /\ directNavs' = 0
    /\ IF directEnabled
       THEN navStep' = "direct" /\ directMax' = maxAttempts
            /\ directCaller' = "ensure"
       ELSE navStep' = "menu" /\ directMax' = 0 /\ directCaller' = "none"
    /\ submenu' = "none"
    /\ menuItems' = <<>>
    /\ clickedItem' = 0
    /\ directSeen' = "none"
    /\ UNCHANGED <<navFrame, directEnabled, sessionVars>>

\* attemptMenuSmartCatalog entered with attempt > 3
MenuExhausted ==
    /\ navStep = "menu"
    /\ menuExhausted(menuAttempt)
    /\ navReturn' = "false"
    /\ navStep' = "idle"
    /\ UNCHANGED <<navFrame, submenuVars, directSeen, directEnabled, navCalls, menuVars, landing,
                   directVars, sessionVars>>

\* the welcome page is loaded and probed for the logout control
MenuWelcome(visible) ==
    /\ navStep = "menu"
    /\ ~menuExhausted(menuAttempt)
    /\ visible => authenticated
    /\ menuRuns' = menuRuns + 1
    /\ clickTries' = 1
    /\ listener' = "none"
    /\ popupOpened' = FALSE
    /\ adopted' = FALSE
    /\ landing' = NoLanding
    /\ firstProbe' = probed(~visible /\ ~authenticated)
    /\ navStep' = IF needsLogin(visible) THEN "welcomeLogin" ELSE "menuWait"
    /\ submenu' = "none"
    /\ menuItems' = <<>>
    /\ clickedItem' = 0
    /\ UNCHANGED <<navFrame, directSeen, directEnabled, navCalls, navReturn, menuAttempt,
                   directVars, authenticated, submissions, confirmed,
                   expiredAfterConfirm>>

\* the login on the welcome page
WelcomeLogin(i) ==
    /\ navStep = "welcomeLogin"
    /\ LoginEffects(i, loginOutcome(i))
    /\ IF loginOutcome(i) = "confirmed"
       THEN navStep' = "menuWait" /\ menuAttempt' = menuAttempt
       ELSE navStep' = "menu" /\ menuAttempt' = menuAttempt + 1
    /\ UNCHANGED <<navFrame, submenuVars, directSeen, directEnabled, navCalls, navReturn, menuRuns,
                   clickTries, listener, popupOpened, adopted, landing,
                   directVars>>

\* the wait for #menu_cataloguing, with one reload; then popupPromise
MenuWait(found) ==
    /\ navStep = "menuWait"
    /\ IF found
       THEN navStep' = "click" /\ listener' = "waiting"
            /\ menuAttempt' = menuAttempt
       ELSE navStep' = "menu" /\ listener' = listener
            /\ menuAttempt' = menuAttempt + 1
    /\ UNCHANGED <<navFrame, submenuVars, directSeen, directEnabled, navCalls, navReturn, menuRuns,
                   clickTries, popupOpened, adopted, landing, directVars,
                   sessionVars>>

\* one click on #menu_cataloguing; a failed click has used its 5000 ms
MenuClick(ok) ==
    /\ navStep = "click"
    /\ IF ok
       THEN navStep' = "submenu"
            /\ UNCHANGED <<navReturn, clickTries, listener>>
       ELSE IF clickTries = maxMenuClicks
            THEN navReturn' = "throws" /\ navStep' = "idle"
                 /\ UNCHANGED <<clickTries, listener>>
            ELSE clickTries' = clickTries + 1
                 /\ listener' = "timedOut"
                 /\ UNCHANGED <<navReturn, navStep>>
    /\ UNCHANGED <<navFrame, submenuVars, directSeen, directEnabled, navCalls, menuAttempt, menuRuns,
                   popupOpened, adopted, landing, directVars, sessionVars>>

\* the 4000 ms of waitForEvent("page") run out
ListenerTimeout ==
    /\ navStep \in {"click", "submenu", "await"}
    /\ listener = "waiting"
    /\ listener' = "timedOut"
    /\ UNCHANGED <<navFrame, submenuVars, directSeen, directEnabled, navStep, navCalls, navReturn,
                   menuAttempt, menuRuns, clickTries, popupOpened, adopted,
                   landing, directVars, sessionVars>>

\* a choice that takes the first match, visible or not
visibleItem_firstMatch(entries) == IF Len(entries) > 0 THEN 1 ELSE 0

\* the first element of the list that is visible, 0 when there is none
visibleItem(entries) ==
    IF \E k \in 1..Len(entries) : entries[k]
    THEN CHOOSE k \in 1..Len(entries) :
             entries[k] /\ \A j \in 1..(k - 1) : ~entries[j]
    ELSE 0

\* the elements #menuItem_smartCataloguing matches, each visible or hidden
MenuItemLists == UNION {[1..n -> BOOLEAN] : n \in 0..MaxMenuItems}

\* the click on the visible #menuItem_smartCataloguing
SubmenuClick(entries, opens) ==
    /\ navStep = "submenu"
    /\ menuItems' = entries
    /\ clickedItem' = visibleItem(entries)
    /\ IF visibleItem(entries) # 0
       THEN /\ navStep' = "await"
            /\ submenu' = "clicked"
            /\ popupOpened' = opens
            /\ listener' = IF opens /\ listener = "waiting" THEN "caught"
                           ELSE listener
            /\ UNCHANGED navReturn
       ELSE /\ navReturn' = "throws"
            /\ navStep' = "idle"
            /\ submenu' = "threw"
            /\ UNCHANGED <<popupOpened, listener>>
    /\ UNCHANGED <<navFrame, directSeen, directEnabled, navCalls, menuAttempt,
                   menuRuns, clickTries, adopted, landing, directVars,
                   sessionVars>>

\* const popup = await popupPromise; if (popup) page = popup
AwaitPopup ==
    /\ navStep = "await"
    /\ listener \in {"caught", "timedOut"}
    /\ adopted' = (listener = "caught")
    /\ navStep' = "checks"
    /\ UNCHANGED <<navFrame, submenuVars, directSeen, directEnabled, navCalls, navReturn, menuAttempt,
                   menuRuns, clickTries, listener, popupOpened, landing,
                   directVars, sessionVars>>

\* the checks on the page the resolver holds after the submenu click
Checks(o) ==
    /\ navStep = "checks"
    /\ o.loginVisible => ~authenticated
    /\ LET out == checksOutcome(o)
       IN  /\ navStep' = CASE out = "login" -> "checksLogin"
                           [] out = "ready" -> "idle"
                           [] OTHER -> "menu"
           /\ navReturn' = IF out = "ready" THEN "true" ELSE navReturn
           /\ landing' = IF out = "ready" THEN o ELSE landing
           /\ menuAttempt' = IF out \in {"denied", "incomplete"}
                             THEN menuAttempt + 1 ELSE menuAttempt
    /\ clickTries' = 1
    /\ listener' = "none"
    /\ popupOpened' = FALSE
    /\ adopted' = FALSE
    /\ submenu' = "none"
    /\ menuItems' = <<>>
    /\ clickedItem' = 0
    /\ UNCHANGED <<navFrame, directSeen, directEnabled, navCalls, menuRuns,
                   directVars, sessionVars>>

\* the login after the menu navigation landed on the login page
ChecksLogin(i) ==
    /\ navStep = "checksLogin"
    /\ LoginEffects(i, loginOutcome(i))
    /\ IF loginOutcome(i) = "confirmed" /\ directEnabled
       THEN /\ navStep' = "direct"
            /\ directAttempt' = 1
            /\ directMax' = postLoginDirectAttempts
            /\ attemptedLogin' = FALSE
            /\ directCaller' = "menu"
            /\ UNCHANGED menuAttempt
       ELSE /\ navStep' = "menu"
            /\ menuAttempt' = menuAttempt + 1
            /\ UNCHANGED <<directAttempt, directMax, attemptedLogin,
                           directCaller>>
    /\ UNCHANGED <<navFrame, submenuVars, directSeen, directEnabled, navCalls, navReturn, menuRuns,
                   clickTries, listener, popupOpened, adopted, landing,
                   directNavs>>

\* one iteration of the loop of attemptDirectSmartCatalog
DirectIter(o) ==
    /\ navStep = "direct"
    /\ directAttempt <= directMax
    /\ o.loginVisible => ~authenticated
    /\ directNavs' = directNavs + 1
    /\ directSeen' = landingKind(o)
    /\ firstProbe' = probed(o.loginVisible)
    /\ LET out == directOutcome(o, attemptedLogin)
       IN  /\ navStep' = CASE out = "login" -> "directLogin"
                           [] out = "ready" -> "idle"
                           [] out = "break" -> "directFalse"
                           [] OTHER -> "direct"
           /\ navReturn' = IF out = "ready" THEN "true" ELSE navReturn
           /\ landing' = IF out = "ready" THEN o ELSE landing
           /\ directAttempt' = IF out = "retry" THEN directAttempt + 1
                               ELSE directAttempt
    /\ UNCHANGED <<navFrame, submenuVars, directEnabled, navCalls, menuVars,
                   directMax, attemptedLogin, directCaller, authenticated,
                   submissions, confirmed, expiredAfterConfirm>>

\* the login inside the direct strategy
DirectLogin(i) ==
    /\ navStep = "directLogin"
    /\ LoginEffects(i, loginOutcome(i))
    /\ attemptedLogin' = (loginOutcome(i) = "confirmed")
    /\ directAttempt' = directAttempt + 1
    /\ navStep' = "direct"
    /\ UNCHANGED <<navFrame, submenuVars, directSeen, directEnabled, navCalls, navReturn, menuVars,
                   landing, directMax, directCaller, directNavs>>

\* attemptDirectSmartCatalog returns false, after a break or after the loop
DirectReturnsFalse ==
    /\ \/ navStep = "directFalse"
       \/ navStep = "direct" /\ directAttempt > directMax
    /\ navStep' = "menu"
    /\ menuAttempt' = IF directCaller = "menu" THEN menuAttempt + 1
                      ELSE menuAttempt
    /\ directSeen' = "none"
    /\ UNCHANGED <<navFrame, submenuVars, directEnabled, navCalls, navReturn, menuRuns,
                   clickTries, listener, popupOpened, adopted, landing,
                   directVars, sessionVars>>

\* the backend invalidates the session
SessionExpires ==
    /\ authenticated
    /\ navCalls > 0
    /\ authenticated' = FALSE
    /\ expiredAfterConfirm' = (expiredAfterConfirm \/ confirmed)
    /\ UNCHANGED <<navFrame, submenuVars, directSeen, directEnabled, navStep, navCalls, navReturn,
                   menuVars, landing, directVars, submissions, confirmed,
                   firstProbe>>

InitNav ==
    /\ catalogued = {}
    /\ QueueInit /\ RunInit /\ ClassifyInit /\ ItemInit /\ LoginInit
    /\ ParseInit /\ PageInit /\ ExtraInit
    /\ directEnabled \in BOOLEAN
    /\ authenticated \in BOOLEAN
    /\ NavIdle

NextNav ==
    \/ NavCall
    \/ MenuExhausted
    \/ \E visible \in BOOLEAN : MenuWelcome(visible)
    \/ \E i \in LoginInputs : WelcomeLogin(i)
    \/ \E found \in BOOLEAN : MenuWait(found)
    \/ \E ok \in BOOLEAN : MenuClick(ok)
    \/ ListenerTimeout
    \/ \E entries \in MenuItemLists, opens \in BOOLEAN :
           SubmenuClick(entries, opens)
    \/ AwaitPopup
    \/ \E o \in Landings : Checks(o)
    \/ \E i \in LoginInputs : ChecksLogin(i)
    \/ \E o \in Landings : DirectIter(o)
    \/ \E i \in LoginInputs : DirectLogin(i)
    \/ DirectReturnsFalse
    \/ SessionExpires

SpecNav == InitNav /\ [][NextNav]_vars

\* --------------------------------------------------- the input file
\* A file content is the sequence of its characters, an identifier the
\* sequence of the characters of one value.
Chars == {"1", "#", ",", ";", "\n", " "}

Delimiters == {"\n", ",", ";"}

Contents == UNION {[1..n -> Chars] : n \in 0..MaxChars}

RECURSIVE splitOn(_, _)
\* the pieces of s between single characters of D
splitOn(s, D) ==
    IF s = <<>> THEN << <<>> >>
    ELSE LET rest == splitOn(Tail(s), D)
         IN  IF Head(s) \in D
             THEN << <<>> >> \o rest
             ELSE << <<Head(s)>> \o Head(rest) >> \o Tail(rest)

RECURSIVE dropInnerEmpty(_, _)
\* a run of delimiters separates once: no empty piece between two pieces
dropInnerEmpty(pieces, k) ==
    IF k > Len(pieces) THEN <<>>
    ELSE (IF k \in {1, Len(pieces)} \/ pieces[k] # <<>>
          THEN <<pieces[k]>> ELSE <<>>) \o dropInnerEmpty(pieces, k + 1)

\* content.split(/[\n,;]+/)
split(s) == dropInnerEmpty(splitOn(s, Delimiters), 1)

RECURSIVE trimStart(_)
trimStart(t) == IF t # <<>> /\ Head(t) = " " THEN trimStart(Tail(t)) ELSE t

RECURSIVE trimEnd(_)
trimEnd(t) ==
    IF t # <<>> /\ t[Len(t)] = " " THEN trimEnd(SubSeq(t, 1, Len(t) - 1)) ELSE t

\* String.prototype.trim
trim(t) == trimEnd(trimStart(t))

\* line.startsWith("#")
startsWith(t, c) == Len(t) > 0 /\ t[1] = c

\* the input parsing of the script: split, trim, filter
parseInput(s) ==
    LET pieces == split(s)
        trimmed == [k \in 1..Len(pieces) |-> trim(pieces[k])]
    IN  SelectSeq(trimmed, LAMBDA t : Len(t) > 0 /\ ~startsWith(t, "#"))

InitParse ==
    /\ catalogued = {}
    /\ QueueInit /\ RunInit /\ ClassifyInit /\ ItemInit /\ LoginInit
    /\ PageInit /\ NavInit /\ ExtraInit
    /\ inputContent \in Contents
    /\ parsed = NotParsed

\* the file named on the command line is read and parsed
ParseFile ==
    /\ ~parsed.done
    /\ parsed' = [done |-> TRUE, isbns |-> parseInput(inputContent)]
    /\ UNCHANGED <<queueVars, runVars, classifyVars, itemVars, loginVars,
                   inputContent, pageVars, navVars, extraVars>>

NextParse == ParseFile

SpecParse == InitParse /\ [][NextParse]_vars

\* ------------------------------------------- the classification function
\* every status text of at most MaxWords words, a text that holds both
\* patterns in either order, and the transient text
StatusTextSamples ==
    UNION {[1..n -> Words] : n \in 0..MaxWords}
        \cup {NO_MATCHING \o FOUND_MATCHING, FOUND_MATCHING \o NO_MATCHING,
              SEARCHING}

ObservationSamples ==
    [thrown : BOOLEAN, searchReady : BOOLEAN, statusText : StatusTextSamples,
     saveButton : SaveButtons]

InitClassify ==
    /\ catalogued = {}
    /\ QueueInit /\ RunInit /\ ItemInit /\ LoginInit /\ RestInit
    /\ obs \in ObservationSamples
    /\ result = NoResult

\* processISBN applied to one page observation
Classify ==
    /\ result = NoResult
    /\ result' = processISBN(obs)
    /\ UNCHANGED <<queueVars, runVars, obs, itemVars, loginVars, restVars>>

NextClassify == Classify

SpecClassify == InitClassify /\ [][NextClassify]_vars

\* ------------------------------------------------------------ the batch
Next ==
    \/ \E inputIsbns \in InputLists : Start(inputIsbns)
    \/ \E credentials \in BOOLEAN, noIsbns \in BOOLEAN :
           SetupError(credentials, noIsbns)
    \/ NavigateOk
    \/ NavigateFail
    \/ NavigateThrows
    \/ LoopNext
    \/ LoopExit
    \/ Process
    \/ RecordAppend
    \/ RecordDequeue
    \/ Kill

Spec == Init /\ [][Next]_vars

\* ------------------------------------------- the exit paths of one run
RunInputs == {<<"a">>, <<"a", "b">>}

NextRun ==
    \/ \E inputIsbns \in RunInputs : Start(inputIsbns)
    \/ \E credentials \in BOOLEAN, noIsbns \in BOOLEAN :
           SetupError(credentials, noIsbns)
    \/ NavigateOk
    \/ NavigateFail
    \/ NavigateThrows
    \/ LoopNext
    \/ LoopExit
    \/ Process
    \/ RecordAppend
    \/ RecordDequeue
    \/ Kill

SpecRun == Init /\ [][NextRun]_vars

TypeOK ==
    /\ pc \in {"idle", "nav", "loop", "process", "record", "dequeue", "done"}
    /\ catalogued \subseteq Isbns
    /\ runs \in 0..MaxRuns
    /\ items \in 0..MaxItems

\* ------------------------------------------------------ claim vocabulary
SuccessFiles == {ADDED_FILE, ALREADY_EXISTS_FILE, NOT_FOUND_FILE}

SuccessIds(d) == UNION {LedgerIds(d, f) : f \in SuccessFiles}

\* number of records of identifier i in ledger file f
Records(d, f, i) ==
    IF f = ERRORS_FILE
    THEN Cardinality({k \in 1..Len(d[f]) : d[f][k].isbn = i})
    ELSE Count(readLines(d[f]), i)

\* number of records in ledger file f
RecordCount(d, f) == IF f = ERRORS_FILE THEN Len(d[f]) ELSE Len(readLines(d[f]))

TotalCount(d) ==
    Len(readLines(d[QUEUE_FILE])) + RecordCount(d, ADDED_FILE)
        + RecordCount(d, ALREADY_EXISTS_FILE) + RecordCount(d, NOT_FOUND_FILE)
        + RecordCount(d, ERRORS_FILE)

\* initializeQueue has just returned
JustInitialized == pc = "nav" \/ (pc = "done" /\ exit = "noWork")

\* durable checkpoints: after initializeQueue and after every recordResult
Checkpoint == pc \in {"nav", "loop", "done"}

\* the batch loop ended because the persisted queue is empty
RunComplete == pc = "done" /\ exit = "complete"

C8_QueuePurged == JustInitialized => QueueIds(disk) \cap SuccessIds(disk) = {}

\* ----------------------------------------------------------------- C9
\* C9: the ledger is append-only.  Every step leaves each ledger file's
\* contents a prefix of its new contents.
C9_AppendOnly == [][\A f \in LedgerFiles : IsPrefix(disk[f], disk'[f])]_vars

\* a ledger file holds two records written by two recordResult calls
C9_Witness == \E f \in LedgerFiles : Len(disk[f]) >= 2

ContainsIgnoringCase(text, pattern) ==
    \E first \in 1..Len(text) :
        /\ first + Len(pattern) - 1 <= Len(text)
        /\ \A k \in 1..Len(pattern) :
               toLowerCase(<<text[first + k - 1]>>) = <<pattern[k]>>

\* the outcome the classification table gives for a text and a save control
TableOutcome(text, control) ==
    IF ContainsIgnoringCase(text, NO_MATCHING) THEN "NOT_FOUND"
    ELSE IF ContainsIgnoringCase(text, FOUND_MATCHING)
    THEN CASE control = "absent" -> "UNKNOWN"
           [] control = "disabled" -> "ALREADY_EXISTS"
           [] control = "enabled" -> "ADDED"
    ELSE "UNKNOWN"

\* C11: once the search is ready and nothing throws, processISBN returns the
\* outcome of the classification table for every status text and save
\* control, and it clicks save exactly when that outcome is ADDED.
C11_Classification ==
    (result # NoResult /\ ~obs.thrown /\ obs.searchReady) =>
        /\ result.status = TableOutcome(obs.statusText, obs.saveButton)
        /\ result.saved <=> (result.status = "ADDED")

\* a text holding both patterns with an enabled save control is NOT_FOUND
C11_Witness ==
    /\ result.status = "NOT_FOUND"
    /\ obs.statusText = FOUND_MATCHING \o NO_MATCHING
    /\ obs.saveButton = "enabled"
    /\ ~obs.thrown /\ obs.searchReady

\* C12: the save control is clicked only when the status text contains
\* "found matching resource" and the control is present and enabled; with a
\* disabled control the outcome is ALREADY_EXISTS and save is not clicked,
\* also when the same identifier is processed again.
C12_SaveOnlyWhenEnabled ==
    /\ saveClicks > 0 =>
           /\ includesFoundMatching(obs.statusText)
           /\ obs.saveButton = "enabled"
    /\ (/\ pc = "record" /\ step = "returned" /\ searchReady
        /\ includesFoundMatching(obs.statusText)
        /\ ~includesNoMatching(obs.statusText)
        /\ obs.saveButton = "disabled") =>
           status = "ALREADY_EXISTS" /\ saveClicks = 0

\* the identifier is ALREADY_EXISTS for the second time in one run
C12_Witness ==
    /\ pc = "record" /\ status = "ALREADY_EXISTS" /\ saveClicks = 0
    /\ runs = 1
    /\ obs.saveButton = "disabled"
    /\ Count(readLines(disk[ALREADY_EXISTS_FILE]), isbn) = 1
    /\ isbn \notin LedgerIds(disk, ADDED_FILE)

\* C13: in one processISBN call the save control is clicked at most once,
\* and after the click there is no search submission, no navigation and no
\* second click: the call goes on to record its result.
C13_NoRetryAfterSave ==
    [][/\ saveClicks' <= 1
       /\ (pc = "process" /\ saveClicks > 0) =>
              /\ searches' = searches
              /\ navs' = navs
              /\ saveClicks' = saveClicks
              /\ pc' = "record"]_vars

\* save was clicked after a navigation retry and a second search
C13_Witness ==
    /\ pc = "process" /\ step = "saved" /\ saveClicks = 1
    /\ navs >= 1 /\ searches >= 2

\* C14: a true return of searchSmartCataloguing implies that none of the
\* three session-loss signals was observed after the search.
C14_TrueReturnNoSignal ==
    (pc = "process" /\ step = "read" /\ searchReady) => ~sessionLost(signals)

\* the processISBN call ended in a thrown browser call or a failed search
ItemFailed == step = "thrown" \/ (step = "returned" /\ ~searchReady)

\* C15: a browser call that throws and a navigation failure while an
\* identifier is processed end in an ERROR result with a message, which is
\* appended to errors.txt for that identifier; the batch stops only when
\* the queue is empty.
C15_ErrorsContained ==
    /\ pc = "done" => Len(readLines(disk[QUEUE_FILE])) = 0
    /\ (ItemFailed /\ pc \in {"record", "dequeue"}) =>
           status = "ERROR" /\ errorMessage # NoMessage
    /\ (ItemFailed /\ pc = "dequeue") =>
           /\ Len(disk[ERRORS_FILE]) > 0
           /\ disk[ERRORS_FILE][Len(disk[ERRORS_FILE])] =
                  [isbn |-> isbn, msg |-> errorMessage]

\* the second identifier is processed after the first one threw and after
\* a navigation failure was recorded
C15_Witness ==
    /\ pc = "process" /\ isbn = "b"
    /\ Len(disk[ERRORS_FILE]) = 1
    /\ disk[ERRORS_FILE][1] = [isbn |-> "a", msg |-> "Target page has been closed"]

\* ------------------------------------------------- claims on the exits
\* the initial navigation returned false or threw
NavigationFailed == pc = "done" /\ exit \in {"navFailed", "navThrew"}

\* C16: the process exits non-zero when the initial navigation returned
\* false or threw, and zero when the batch ran to the end.
C16_ExitStatus ==
    /\ NavigationFailed => exitCode = "1"
    /\ RunComplete => exitCode = "0"

\* C17: a failed initial navigation ends the run with no identifier
\* processed: no file changes, and queue.txt holds the queue that
\* initializeQueue returned.
C17_NavigationFailureFrame ==
    [][(pc = "nav" /\ pc' = "done") =>
          /\ disk' = disk
          /\ items' = items
          /\ catalogued' = catalogued
          /\ readLines(disk'[QUEUE_FILE]) = queue
          /\ Len(queue) > 0]_vars

\* the run ended on a navigation that returned false, two identifiers queued
C17_Witness ==
    /\ pc = "done" /\ exit = "navFailed"
    /\ readLines(disk[QUEUE_FILE]) = <<"a", "b">>
    /\ AllLedgerIds(disk) = {}

\* C18: with a credential missing or an empty identifier list the run
\* exits non-zero with no browser launched and every file as it was.
C18_SetupErrorFrame ==
    [][(runs' = runs + 1 /\ exit' = "setupError") =>
          /\ disk' = disk
          /\ catalogued' = catalogued
          /\ exitCode' = "1"
          /\ browser' = FALSE]_vars

\* a setup error of a run that found a pending queue and a ledger record
C18_Witness ==
    /\ pc = "done" /\ exit = "setupError" /\ exitCode = "1"
    /\ Len(readLines(disk[QUEUE_FILE])) > 0
    /\ AllLedgerIds(disk) # {}

\* ------------------------------------------------- claims on the login
\* C19: loginThroughPopup returns true only after it submitted the
\* credentials in that call and then saw #window_logout.
C19_TrueOnlyOnProof ==
    loginReturn = "true" => submittedCredentials /\ logoutVisible

\* a login confirmed after two dialog attempts without a form
C19_Witness ==
    /\ loginReturn = "true" /\ dialogAttempt = maxLoginDialogAttempts
    /\ submittedCredentials /\ logoutVisible

\* C20: a call that returns true has written the snapshot, once, and
\* session.json is then the snapshot of that call; a call that returns
\* false has written nothing, and nothing is written before the login
\* is confirmed.
C20_SnapshotOnConfirmedLogin ==
    /\ loginReturn = "true" => snapshotWrites = 1 /\ sessionFile = loginCalls
    /\ loginReturn \in {"false", "none"} => snapshotWrites = 0
    /\ snapshotWrites > 0 => submittedCredentials /\ logoutVisible

\* the second confirmed login replaced the snapshot of the first
C20_Witness ==
    /\ loginReturn = "true" /\ loginCalls = 2 /\ sessionFile = 2
    /\ snapshotWrites = 1

\* ------------------------------------------ claims on the loop and bounds
\* the ledger file recordLedger appends to for a status
LedgerOf(st) ==
    CASE st = "ADDED" -> ADDED_FILE
      [] st = "ALREADY_EXISTS" -> ALREADY_EXISTS_FILE
      [] st = "NOT_FOUND" -> NOT_FOUND_FILE
      [] OTHER -> ERRORS_FILE

\* the identifier of the last record of ledger file f
LastId(d, f) ==
    IF Len(d[f]) = 0 THEN NoIsbn
    ELSE IF f = ERRORS_FILE THEN d[f][Len(d[f])].isbn
    ELSE d[f][Len(d[f])]

\* C22: while an identifier is processed and recorded it is the first entry
\* of queue.txt, and the dequeue of recordResult removes exactly that entry,
\* whose outcome is the last record of its ledger.
C22_QueueHead ==
    [][/\ pc' \in {"process", "record", "dequeue"} =>
              /\ Len(readLines(disk'[QUEUE_FILE])) > 0
              /\ Head(readLines(disk'[QUEUE_FILE])) = isbn'
       /\ (pc = "dequeue" /\ pc' = "loop") =>
              /\ LastId(disk, LedgerOf(status)) = isbn
              /\ Head(readLines(disk[QUEUE_FILE])) = isbn
              /\ readLines(disk'[QUEUE_FILE]) = Tail(readLines(disk[QUEUE_FILE]))]_vars

\* the second identifier is in flight after the first was recorded and
\* removed
C22_Witness ==
    /\ pc = "process" /\ isbn = "b"
    /\ readLines(disk[QUEUE_FILE]) = <<"b">>
    /\ "a" \in AllLedgerIds(disk)

\* the page matches none of the known patterns
Ambiguous(o) ==
    /\ ~includesNoMatching(o.statusText)
    /\ ~includesFoundMatching(o.statusText) \/ o.saveButton = "absent"

\* C23: when the page read by processISBN matches none of the known
\* patterns the outcome is UNKNOWN with a message, and a record with a
\* message is in errors.txt while the identifier is still the queue head.
C23_AmbiguityRecorded ==
    /\ (pc \in {"record", "dequeue"} /\ step = "returned" /\ searchReady
           /\ Ambiguous(obs)) =>
           status = "UNKNOWN" /\ errorMessage # NoMessage
    /\ (pc = "dequeue" /\ status = "UNKNOWN") =>
           /\ Len(disk[ERRORS_FILE]) > 0
           /\ disk[ERRORS_FILE][Len(disk[ERRORS_FILE])] =
                  [isbn |-> isbn, msg |-> errorMessage]
           /\ Head(readLines(disk[QUEUE_FILE])) = isbn

\* "found matching resource" without a save control, recorded
C23_Witness ==
    /\ pc = "dequeue" /\ status = "UNKNOWN"
    /\ includesFoundMatching(obs.statusText) /\ obs.saveButton = "absent"
    /\ disk[ERRORS_FILE][Len(disk[ERRORS_FILE])].msg = "Save button not found"

\* C28: one loginThroughPopup call opens the login dialog at most three
\* times; a call that never saw the credential fields submits nothing and
\* returns false.
C28_DialogBound ==
    /\ dialogOpens <= maxLoginDialogAttempts
    /\ (loginStep = "returned" /\ ~submittedCredentials /\ loginReturn # "threw")
           => loginReturn = "false"
    /\ ~submittedCredentials => (sessionFile # loginCalls \/ loginCalls = 0)

\* three dialogs without a form, then a negative result
C28_Witness ==
    /\ loginReturn = "false" /\ dialogOpens = maxLoginDialogAttempts
    /\ ~submittedCredentials

\* C29: one processISBN call clicks search at most three times; every
\* retry has raised the attempt counter; past the ceiling or after a failed
\* re-navigation searchSmartCataloguing has returned false and the result
\* is ERROR.
C29_SearchBound ==
    /\ searches <= MaxSearchAttempts
    /\ (pc = "process" /\ step = "search") => searches < attempt
    /\ (step \in {"read", "returned"} /\ attempt > MaxSearchAttempts)
           => ~searchReady
    /\ (pc = "record" /\ step = "returned" /\ ~searchReady) =>
           status = "ERROR" /\ errorMessage = "Search failed after re-login"

\* three searches, the last one off the search surface: ERROR
C29_Witness ==
    /\ pc = "record" /\ status = "ERROR" /\ searches = MaxSearchAttempts
    /\ step = "returned" /\ ~searchReady

\* --------------------------------------------- claims on input and page
RECURSIVE joinLines(_)
\* the lines put together again with "\n" between them
joinLines(lines) ==
    IF Len(lines) = 0 THEN <<>>
    ELSE IF Len(lines) = 1 THEN lines[1]
    ELSE lines[1] \o <<"\n">> \o joinLines(Tail(lines))

\* the content with every line that starts with "#" taken out
WithoutCommentLines(s) ==
    joinLines(SelectSeq(splitOn(s, {"\n"}), LAMBDA l : ~startsWith(l, "#")))

\* C24: a line starting with "#" is ignored entirely: the identifier list
\* of a content is the list of the same content without its comment lines.
C24_CommentLinesIgnored ==
    parsed.done => parsed.isbns = parseInput(WithoutCommentLines(inputContent))

\* C25: an identifier whose processing starts with the active page closed
\* gets a live page first: it does not end in the page-closed error.
C25_PageReacquired ==
    (pc = "record" /\ staleAtStart) =>
        ~(status = "ERROR" /\ errorMessage = "Target page has been closed")

\* ------------------------------------------------ claims on navigation
\* C21 as stated: with the login link shown on the first probe and the
\* session kept valid after the confirmed login, credentials are submitted
\* exactly once in the run.
C21_LoginOnce ==
    (confirmed /\ firstProbe = "login" /\ ~expiredAfterConfirm) =>
        submissions = 1

\* C21: once a login was confirmed and while the backend keeps the session
\* valid, no step of any later navigation submits credentials again.
C21_NoLoginAfterConfirm ==
    [][(confirmed /\ ~expiredAfterConfirm') => submissions' = submissions]_vars

C21_Witness ==
    /\ confirmed /\ ~expiredAfterConfirm
    /\ firstProbe = "login"
    /\ submissions = 1
    /\ navCalls >= 2 /\ navStep = "idle" /\ navReturn = "true"

\* C26: when the submenu click opened a new page, the checks that follow
\* run on that page: the page reference was switched to it.
C26_PopupAdopted ==
    (navStep = "checks" /\ popupOpened) => adopted

\* C27 as stated: one navigateToSmartCataloguing call makes at most
\* maxAttempts direct navigations.
C27_DirectCeiling ==
    directNavs <= maxAttempts

\* C27: one call starts at most 3 menu attempts and returns false only
\* from the fourth; each attemptDirectSmartCatalog call stays within its
\* own maxAttempts, so the call makes at most 5 + 3 * 3 direct navigations.
C27_RetryCeiling ==
    /\ menuRuns <= maxMenuAttempts
    /\ menuAttempt <= maxMenuAttempts + 1
    /\ directAttempt <= directMax + 1
    /\ directNavs <= maxAttempts + maxMenuAttempts * postLoginDirectAttempts
    /\ (navStep = "idle" /\ navReturn = "false") =>
           menuAttempt = maxMenuAttempts + 1

C27_Witness ==
    /\ navStep = "idle" /\ navReturn = "false"
    /\ directNavs > maxAttempts
    /\ menuRuns = maxMenuAttempts

\* C30: a true return of navigateToSmartCataloguing rests on a page that
\* showed the search input and neither the login link nor the
\* permission-denied indicator.
C30_ReadyOnSearchInput ==
    navReturn = "true" =>
        /\ landing.searchInput
        /\ ~landing.loginVisible
        /\ ~landing.permissionDenied

C30_Witness ==
    /\ navReturn = "true"
    /\ landing.searchInput
    /\ ~landing.onSurface

\* ------------------------------------------- claims on the queue set-up
\* C35: when initializeQueue has returned, an input identifier with a
\* record in added, already-exists or not-found is not in the returned
\* queue, and one whose only records are in errors is in it.
C35_ErrorsRetried ==
    JustInitialized =>
        \A i \in Range(isbns) :
            /\ i \in SuccessIds(disk) => i \notin Range(queue)
            /\ i \in LedgerIds(disk, ERRORS_FILE) \ SuccessIds(disk) =>
                   i \in Range(queue)

\* two identifiers are supplied again: the one recorded as Error is
\* enqueued, the one with a success record is skipped
C35_Witness ==
    /\ pc = "nav" /\ runs = 2
    /\ \E i \in Range(queue) : i \in LedgerIds(disk, ERRORS_FILE)
    /\ \E j \in Range(isbns) : j \in SuccessIds(disk) /\ j \notin Range(queue)

\* C38: when initializeQueue has returned, the queue file as readLines
\* reads it equals the returned queue.
C38_QueueFileIsQueue ==
    JustInitialized => readLines(disk[QUEUE_FILE]) = queue

\* ------------------------------------------- claims on one processISBN call
LedgerRecords(d) ==
    RecordCount(d, ADDED_FILE) + RecordCount(d, ALREADY_EXISTS_FILE)
        + RecordCount(d, NOT_FOUND_FILE) + RecordCount(d, ERRORS_FILE)

LedgersOf(d) == [f \in LedgerFiles |-> d[f]]

\* C39: a processISBN call writes nothing before its recordResult, then
\* appends exactly one ledger record, of its identifier, then removes exactly
\* one entry from the persisted queue and returns to the loop.
C39_RecordsOnce ==
    [][/\ pc = "process" => disk' = disk /\ pc' \in {"process", "record"}
       /\ pc = "record" =>
              /\ pc' = "dequeue"
              /\ LedgerRecords(disk') = LedgerRecords(disk) + 1
              /\ Records(disk', LedgerOf(status), isbn)
                     = Records(disk, LedgerOf(status), isbn) + 1
              /\ disk'[QUEUE_FILE] = disk[QUEUE_FILE]
       /\ pc = "dequeue" =>
              /\ pc' = "loop"
              /\ LedgersOf(disk') = LedgersOf(disk)
              /\ Len(readLines(disk'[QUEUE_FILE]))
                     = Len(readLines(disk[QUEUE_FILE])) - 1]_vars

\* two calls have returned, one through the catch and one after a save:
\* two records, an empty queue
C39_Witness ==
    /\ pc = "loop" /\ items = 2
    /\ RecordCount(disk, ERRORS_FILE) = 1
    /\ RecordCount(disk, ADDED_FILE) = 1
    /\ Len(readLines(disk[QUEUE_FILE])) = 0

\* C36: the batch terminates.  From the head of the loop, with the
\* iterations the queue still needs, the run reaches the report step with
\* an empty queue.
C36_BatchTerminates ==
    (pc = "loop" /\ items + Len(readLines(disk[QUEUE_FILE])) <= MaxItems)
        ~> (RunComplete /\ readLines(disk[QUEUE_FILE]) = <<>>)

\* a run over two identifiers has reached the report step
C36_Witness ==
    /\ RunComplete
    /\ Len(isbns) = 2 /\ items = 2
    /\ readLines(disk[QUEUE_FILE]) = <<>>

\* ------------------------------------------ claims on the two strategies
\* C31: the submenu element that is clicked is a visible one; when no
\* element is visible nothing is clicked and the navigation ends with the
\* error thrown.
C31_VisibleEntryClicked ==
    /\ submenu = "clicked" =>
           /\ clickedItem \in 1..Len(menuItems)
           /\ menuItems[clickedItem]
    /\ submenu = "threw" =>
           /\ clickedItem = 0
           /\ \A k \in 1..Len(menuItems) : ~menuItems[k]
           /\ navStep = "idle" /\ navReturn = "throws"
    /\ (submenu # "none" /\ \E k \in 1..Len(menuItems) : menuItems[k]) =>
           submenu = "clicked"

\* of two elements the first is hidden and the second, visible one was
\* clicked
C31_Witness ==
    /\ submenu = "clicked"
    /\ Len(menuItems) = 2
    /\ ~menuItems[1] /\ menuItems[2]
    /\ clickedItem = 2

\* C34: a direct navigation that lands off the search surface, without
\* login link and permission-denied indicator, ends the direct strategy: no
\* further direct navigation and no login follow before it returns false to
\* the menu strategy; so does one that lands on permission-denied after a
\* successful login of the same call.
C34_RedirectAbandons ==
    [][/\ (directNavs' = directNavs + 1 /\ directSeen' = "redirect") =>
              navStep' = "directFalse"
       /\ (directNavs' = directNavs + 1 /\ directSeen' = "denied"
              /\ attemptedLogin) => navStep' = "directFalse"
       /\ navStep = "directFalse" =>
              /\ navStep' \in {"directFalse", "menu"}
              /\ directNavs' = directNavs
              /\ submissions' = submissions
              /\ navReturn' = navReturn]_vars

\* the first direct navigation was redirected and the strategy is abandoned
\* with four attempts left
C34_Witness ==
    /\ navStep = "directFalse"
    /\ directSeen = "redirect"
    /\ directAttempt = 1 /\ directMax = maxAttempts

\* ------------------------------------------- the pages of the context
tabFrame == <<queueVars, runVars, classifyVars, itemVars, loginVars,
              parseVars, pageVars, navVars, waitVars>>

\* a registration that attaches a handler on every call
shouldAttach_always(targetPage) == targetPage # NoPage

\* registerPageEventHandlers: the two early returns
shouldAttach(targetPage) ==
    targetPage # NoPage /\ targetPage \notin pagesWithHandlers

\* registerPageEventHandlers(targetPage)
registerPageEventHandlers(targetPage) ==
    /\ registerCalls' = IF targetPage = NoPage THEN registerCalls
                        ELSE [registerCalls EXCEPT ![targetPage] = @ + 1]
    /\ IF shouldAttach(targetPage)
       THEN /\ dialogHandlers' = [dialogHandlers EXCEPT ![targetPage] = @ + 1]
            /\ pagesWithHandlers' = pagesWithHandlers \cup {targetPage}
       ELSE UNCHANGED <<dialogHandlers, pagesWithHandlers>>

\* the page a newPage call or a window opened by the site creates
freshPage ==
    CHOOSE p \in PageIds \ contextPages :
        \A q \in PageIds \ contextPages : p <= q

\* the operations of the program that work on the active page
Operations == {"gotoAndWait", "loginThroughPopup",
               "attemptDirectSmartCatalog", "attemptMenuSmartCatalog",
               "searchSmartCataloguing", "processISBN", "recordResult"}

\* the operations that start with a call of ensurePage
callsEnsurePage(op) ==
    op \in {"gotoAndWait", "loginThroughPopup", "attemptDirectSmartCatalog"}

\* the operation that waits for a new page after the submenu click
adoptsPopup(op) == op = "attemptMenuSmartCatalog"

\* a login that drops the page reference
pageAfter_loginResets(op, current) ==
    IF op = "loginThroughPopup" THEN NoPage ELSE current

\* the page reference after the statements of an operation, its ensurePage
\* call and the popup adoption aside
pageAfter(op, current) == current

\* runOliverAutomation: context.on("page", ...)
ContextListens ==
    /\ tabStep = "launch"
    /\ tabStep' = "listening"
    /\ tabOp' = "runOliverAutomation"
    /\ UNCHANGED <<tabFrame, page, pagesWithHandlers, contextPages,
                   closedPages, pageEvents, dialogHandlers, registerCalls,
                   afterRegister>>

\* runOliverAutomation: page = await context.newPage()
CreateInitialPage ==
    /\ tabStep = "listening"
    /\ page' = freshPage
    /\ contextPages' = contextPages \cup {freshPage}
    /\ pageEvents' = pageEvents \cup {freshPage}
    /\ tabStep' = "register"
    /\ afterRegister' = "ready"
    /\ UNCHANGED <<tabFrame, pagesWithHandlers, closedPages, dialogHandlers,
                   registerCalls, tabOp>>

\* the listener of the context "page" event runs for a new page
ContextPageEvent(p) ==
    /\ p \in pageEvents
    /\ tabStep # "launch"
    /\ pageEvents' = pageEvents \ {p}
    /\ registerPageEventHandlers(p)
    /\ UNCHANGED <<tabFrame, page, contextPages, closedPages, tabStep, tabOp,
                   afterRegister>>

\* the explicit registerPageEventHandlers(page) after an assignment of page
RegisterExplicit ==
    /\ tabStep = "register"
    /\ registerPageEventHandlers(page)
    /\ tabStep' = afterRegister
    /\ afterRegister' = "none"
    /\ UNCHANGED <<tabFrame, page, contextPages, closedPages, pageEvents,
                   tabOp>>

\* an operation is called
Call(op) ==
    /\ tabStep = "ready"
    /\ tabOp' = op
    /\ tabStep' = IF callsEnsurePage(op) THEN "ensure" ELSE "body"
    /\ UNCHANGED <<tabFrame, page, pagesWithHandlers, contextPages,
                   closedPages, pageEvents, dialogHandlers, registerCalls,
                   afterRegister>>

\* ensurePage
EnsurePage ==
    /\ tabStep = "ensure"
    /\ IF page = NoPage \/ page \in closedPages
       THEN /\ contextPages # PageIds
            /\ page' = freshPage
            /\ contextPages' = contextPages \cup {freshPage}
            /\ pageEvents' = pageEvents \cup {freshPage}
            /\ tabStep' = "register"
            /\ afterRegister' = "body"
       ELSE /\ tabStep' = "body"
            /\ UNCHANGED <<page, contextPages, pageEvents, afterRegister>>
    /\ UNCHANGED <<tabFrame, pagesWithHandlers, closedPages, dialogHandlers,
                   registerCalls, tabOp>>

\* the statements of the operation
Body ==
    /\ tabStep = "body"
    /\ page' = pageAfter(tabOp, page)
    /\ tabStep' = IF adoptsPopup(tabOp) THEN "popup" ELSE "ready"
    /\ UNCHANGED <<tabFrame, pagesWithHandlers, contextPages, closedPages,
                   pageEvents, dialogHandlers, registerCalls, tabOp,
                   afterRegister>>

\* attemptMenuSmartCatalog: const popup = await popupPromise; a popup that
\* opened becomes the active page
PopupAdoption(opens) ==
    /\ tabStep = "popup"
    /\ IF opens
       THEN /\ contextPages # PageIds
            /\ page' = freshPage
            /\ contextPages' = contextPages \cup {freshPage}
            /\ pageEvents' = pageEvents \cup {freshPage}
            /\ tabStep' = "register"
            /\ afterRegister' = "ready"
       ELSE /\ tabStep' = "ready"
            /\ UNCHANGED <<page, contextPages, pageEvents, afterRegister>>
    /\ UNCHANGED <<tabFrame, pagesWithHandlers, closedPages, dialogHandlers,
                   registerCalls, tabOp>>

\* the site opens a window the program does not adopt
SiteOpensPage ==
    /\ tabStep \in {"ready", "body"}
    /\ contextPages # PageIds
    /\ contextPages' = contextPages \cup {freshPage}
    /\ pageEvents' = pageEvents \cup {freshPage}
    /\ UNCHANGED <<tabFrame, page, pagesWithHandlers, closedPages,
                   dialogHandlers, registerCalls, tabStep, tabOp,
                   afterRegister>>

\* a page of the context is closed
PageCloses(p) ==
    /\ p \in contextPages \ closedPages
    /\ closedPages' = closedPages \cup {p}
    /\ UNCHANGED <<tabFrame, page, pagesWithHandlers, contextPages,
                   pageEvents, dialogHandlers, registerCalls, tabStep, tabOp,
                   afterRegister>>

InitPages ==
    /\ catalogued = {}
    /\ QueueInit /\ RunInit /\ ClassifyInit /\ ItemInit /\ LoginInit
    /\ RestInit

NextPages ==
    \/ ContextListens
    \/ CreateInitialPage
    \/ \E p \in PageIds : ContextPageEvent(p)
    \/ RegisterExplicit
    \/ \E op \in Operations : Call(op)
    \/ EnsurePage
    \/ Body
    \/ \E opens \in BOOLEAN : PopupAdoption(opens)
    \/ SiteOpensPage
    \/ \E p \in PageIds : PageCloses(p)

SpecPages == InitPages /\ [][NextPages]_vars

\* ------------------------------------------------ claims on the pages
\* C32: every page of the context carries at most one dialog handler, and
\* exactly one once the listener of the context has seen it or the program
\* has registered it, however often registerPageEventHandlers ran for it.
C32_OneHandlerPerPage ==
    /\ \A p \in PageIds : dialogHandlers[p] <= 1
    /\ \A p \in contextPages \ pageEvents : dialogHandlers[p] = 1
    /\ (tabStep \in {"ready", "ensure", "body", "popup"}) =>
           dialogHandlers[page] = 1
    /\ pagesWithHandlers = {p \in PageIds : dialogHandlers[p] = 1}

\* the adopted popup was registered by the listener and by the explicit
\* call, and the initial page too
C32_Witness ==
    /\ tabStep = "ready" /\ tabOp = "attemptMenuSmartCatalog"
    /\ page = 2
    /\ registerCalls[1] = 2 /\ dialogHandlers[1] = 1
    /\ registerCalls[2] = 2 /\ dialogHandlers[2] = 1

\* C33: page changes only in the initial creation, in ensurePage when it is
\* unset or closed, and in the adoption of the popup after the submenu click.
C33_SingleWriter ==
    [][page' # page =>
          \/ tabStep = "listening" /\ page = NoPage
          \/ tabStep = "ensure" /\ (page = NoPage \/ page \in closedPages)
          \/ tabStep = "popup" /\ tabOp = "attemptMenuSmartCatalog"]_vars

\* a login ran on a page that ensurePage had opened in place of the closed
\* initial page, and left it the active page
C33_Witness ==
    /\ tabOp = "loginThroughPopup" /\ tabStep = "ready"
    /\ 1 \in closedPages
    /\ page = 2

\* ------------------------------------ the status signal of one search
\* how many searches are submitted on the same page
MaxSearches == 3

waitFrame == <<queueVars, runVars, classifyVars, itemVars, loginVars,
               parseVars, pageVars, navVars, tabVars>>

\* what the site shows when a search has finished
SearchResults ==
    {[statusText |-> <<"No", "matching", "resource">>, saveButton |-> "absent"],
     [statusText |-> <<"Found", "matching", "resource">>,
      saveButton |-> "enabled"],
     [statusText |-> <<"Found", "matching", "resource">>,
      saveButton |-> "disabled"]}

\* the predicate of both waitForFunction calls of searchSmartCataloguing
statusSettled(text) == text # <<>> /\ ~includes(text, SEARCHING)

\* searchSmartCataloguing: the field is filled, the button clicked, the
\* modal wait is over
SubmitSearch ==
    /\ waitStep = "idle"
    /\ searchNo < MaxSearches
    /\ searchNo' = searchNo + 1
    /\ backendStep' = "pending"
    /\ waitStep' = "start"
    /\ waitedOn' = 0
    /\ outcome' = NoResult
    /\ outcomeFrom' = 0
    /\ outcomeText' = <<>>
    /\ UNCHANGED <<waitFrame, msgText, msgFor, saveControl>>

\* the site replaces the status text by the transient message
SiteShowsSearching ==
    /\ backendStep = "pending"
    /\ backendStep' = "searching"
    /\ msgText' = SEARCHING
    /\ msgFor' = searchNo
    /\ saveControl' = "absent"
    /\ UNCHANGED <<waitFrame, searchNo, waitStep, waitedOn, outcome,
                   outcomeFrom, outcomeText>>

\* the site replaces the transient message by the result of the search
SiteShowsResult(r) ==
    /\ backendStep = "searching"
    /\ backendStep' = "done"
    /\ msgText' = r.statusText
    /\ msgFor' = searchNo
    /\ saveControl' = r.saveButton
    /\ UNCHANGED <<waitFrame, searchNo, waitStep, waitedOn, outcome,
                   outcomeFrom, outcomeText>>

\* searchSmartCataloguing: the wait "for the search to start"; it ends on
\* its predicate or on its timeout
WaitForStart ==
    /\ waitStep = "start"
    /\ waitStep' = "complete"
    /\ waitedOn' = IF statusSettled(msgText) THEN msgFor ELSE waitedOn
    /\ UNCHANGED <<waitFrame, msgText, msgFor, saveControl, searchNo,
                   backendStep, outcome, outcomeFrom, outcomeText>>

\* searchSmartCataloguing: the wait for the search to complete; it ends on
\* its predicate, or on its timeout and the grace period
WaitForComplete ==
    /\ waitStep = "complete"
    /\ waitStep' = "read"
    /\ waitedOn' = IF statusSettled(msgText) THEN msgFor ELSE waitedOn
    /\ UNCHANGED <<waitFrame, msgText, msgFor, saveControl, searchNo,
                   backendStep, outcome, outcomeFrom, outcomeText>>

\* processISBN: the status text is read and classified
ReadStatusText ==
    /\ waitStep = "read"
    /\ waitStep' = "idle"
    /\ outcome' = processISBN([thrown |-> FALSE, searchReady |-> TRUE,
                               statusText |-> msgText,
                               saveButton |-> saveControl])
    /\ outcomeFrom' = msgFor
    /\ outcomeText' = msgText
    /\ UNCHANGED <<waitFrame, msgText, msgFor, saveControl, searchNo,
                   backendStep, waitedOn>>

InitWait ==
    /\ catalogued = {}
    /\ QueueInit /\ RunInit /\ ClassifyInit /\ ItemInit /\ LoginInit
    /\ RestInit

NextWait ==
    \/ SubmitSearch
    \/ SiteShowsSearching
    \/ \E r \in SearchResults : SiteShowsResult(r)
    \/ WaitForStart
    \/ WaitForComplete
    \/ ReadStatusText

SpecWait == InitWait /\ [][NextWait]_vars

TerminalStatuses == {"ADDED", "ALREADY_EXISTS", "NOT_FOUND"}

\* C37: a wait of searchSmartCataloguing ends only on a message of the
\* search just submitted, an outcome Added, AlreadyExists or NotFound is
\* derived from a text that this search produced, and the transient text
\* is never given one of these outcomes.
C37_StatusFromOwnSearch ==
    /\ waitedOn \in {0, searchNo}
    /\ outcome.status \in TerminalStatuses => outcomeFrom = searchNo
    /\ includes(outcomeText, SEARCHING) =>
           outcome.status \notin TerminalStatuses
====
